---------------------------- MODULE Spec2Model ----------------------------
(***************************************************************************)
(* Model of the zendure power-balancing controller.                        *)
(*                                                                         *)
(*   automate/device_controller.py   AutomateController, PowerAccumulator  *)
(*   automate/automate.py            AutomationApp (the control loop)      *)
(*   run_schedule/zero_feed_in_controller.py  _calculate_new_settings      *)
(*                                                                         *)
(* Conventions of the model                                                *)
(*   - a Python Optional is a sequence: <<>> is None, <<v>> is the value v *)
(*   - time is whole seconds since a midnight; energy is kept in           *)
(*     watt-seconds (Wh * 3600), so the accumulators stay integers         *)
(***************************************************************************)
EXTENDS Integers, Sequences, FiniteSets, TLC

VARIABLES
    \* one call of the pure function _calculate_new_settings
    calc_args,      \* its arguments
    calc_result,    \* its return value, <<>> before the call
    \* the latest call of one of the other functions that are checked on
    \* their own
    fn_args,        \* the function's name and its arguments, <<>> if none is called
    fn_result,      \* what it returned or logged, <<>> before the call
    \* AutomateController (automate/device_controller.py)
    TEST_MODE,                  \* module flag: simulate, do not write
    idle_run,                   \* the world of this run: TRUE for an unattended run
                                \* during which the schedule asks for 0 W
    previous_power,             \* last successfully sent power, or None
    limit_state,                \* -1 (MIN), 0 (OK), 1 (MAX)
    power_feed_accumulators,    \* PowerAccumulator: quarter, hour, day, manual
    power_feed_tracking,        \* PowerAccumulator: last value, time, periods
    \* the world around the controller
    device,         \* the inverter: acMode, inputLimit, outputLimit, smartMode
    now,            \* wall clock, seconds
    \* what the callers of the controller have observed
    n_calls,        \* number of set_power calls made so far
    n_posts,        \* number of POSTs to /properties/write made so far
    last_call,      \* the latest set_power call: argument, state before, outcome
    scenario_pos,   \* steps of StopScenario that the calls have followed, or -1
    \* AutomationApp (automate/automate.py)
    pc,                     \* where run() is
    shutdown_requested,
    old_value, app_value,   \* self.old_value, self.value
    zero_count,
    last_api_refresh_time,
    schedule_data,          \* ScheduleController.schedule_data: None or the resolved list
    tick_p1_data,           \* run(): p1_data of this iteration
    tick_desired_power,     \* run(): desired_power of this iteration
    tick_applied,           \* _apply_power_settings: the set_power call of the latest
                            \* iteration that reached it, None when it made none
    input_handler,          \* InputHandler: the platform, the listener thread, the queue
    \* PowerAccumulator: the hourly P1 ledger
    p1_hourly_reference, p1_hourly_last_reset_hour, p1_hourly_data,
    p1_hourly_file,         \* the content of data/p1_hourly_energy.json
    \* what the status API and the operating system have observed
    last_status,    \* the latest event posted: type, oldValue, newValue
    n_status,       \* number of events posted so far
    exit_path,      \* why run() left its loop, None while it has not
    n_ticks         \* iterations of the loop started so far

calc_vars == <<calc_args, calc_result, fn_args, fn_result>>

ctl_vars == <<TEST_MODE, idle_run, previous_power, limit_state, power_feed_accumulators,
              power_feed_tracking, device, now>>

obs_vars == <<n_calls, n_posts, last_call, scenario_pos>>

app_vars == <<pc, shutdown_requested, old_value, app_value, zero_count>>

sched_vars == <<last_api_refresh_time, schedule_data>>

tick_vars == <<tick_p1_data, tick_desired_power, tick_applied>>

ledger_vars == <<p1_hourly_reference, p1_hourly_last_reset_hour, p1_hourly_data,
                 p1_hourly_file>>

status_vars == <<last_status, n_status>>

run_vars == <<exit_path, n_ticks>>

all_app_vars == <<app_vars, sched_vars, tick_vars, ledger_vars, status_vars, run_vars,
                  input_handler>>

\* what Install sets
installed_vars == <<previous_power, limit_state, power_feed_accumulators,
                    power_feed_tracking, device, n_calls, n_posts, last_call,
                    scenario_pos>>

vars == <<calc_args, calc_result, fn_args, fn_result, TEST_MODE, idle_run, previous_power, limit_state,
          power_feed_accumulators, power_feed_tracking, device, now,
          n_calls, n_posts, last_call, scenario_pos,
          pc, shutdown_requested, old_value, app_value, zero_count,
          last_api_refresh_time, schedule_data, tick_p1_data, tick_desired_power,
          tick_applied, input_handler,
          p1_hourly_reference, p1_hourly_last_reset_hour, p1_hourly_data, p1_hourly_file,
          last_status, n_status, exit_path, n_ticks>>

None == <<>>
Some(v) == <<v>>
IsNone(o) == o = <<>>
Val(o) == o[1]

Abs(x) == IF x < 0 THEN -x ELSE x
Max(a, b) == IF a >= b THEN a ELSE b
Min(a, b) == IF a <= b THEN a ELSE b

(***************************************************************************)
(* Constants of AutomateController (identical in zero_feed_in_controller)  *)
(***************************************************************************)
POWER_FEED_MIN == 0 - 800
POWER_FEED_MAX == 1200
POWER_FEED_MIN_THRESHOLD == 30
POWER_FEED_MIN_DELTA == 50
MIN_CHARGE_LEVEL == 20
MAX_CHARGE_LEVEL == 90

(***************************************************************************)
(* Bounds of the model                                                     *)
(***************************************************************************)
NearBy == 1     \* inputs are taken within NearBy of every interesting value
MaxCalls == 4   \* set_power calls made on one controller
MaxTicks == 2   \* iterations of the control loop
MaxQueued == 2  \* lines waiting in the input queue
MaxOldTicks == 3  \* iterations of the loops of run_schedule
MaxIdleTicks == 22  \* iterations of the control loop in an unattended run

Near(c) == (c - NearBy) .. (c + NearBy)

(***************************************************************************)
(* _calculate_new_settings, step by step                                   *)
(***************************************************************************)
\* current_input / current_output of None count as 0
OrZero(o) == IF IsNone(o) THEN 0 ELSE Val(o)

EffectiveCurrent(current_input, current_output) ==
    OrZero(current_output) - OrZero(current_input)

\* slip: the grid reading is subtracted instead of added
EffectiveDesired_Minus(p1_power, current_input, current_output) ==
    EffectiveCurrent(current_input, current_output) - p1_power

EffectiveDesired(p1_power, current_input, current_output) ==
    EffectiveCurrent(current_input, current_output) + p1_power

\* slip: the "too full to charge" test is missing
BatteryConstraint_NoMaxGate(effective_desired, electric_level) ==
    IF IsNone(electric_level) THEN effective_desired
    ELSE IF Val(electric_level) < MIN_CHARGE_LEVEL /\ effective_desired > 0
         THEN 0 ELSE effective_desired

\* battery constraints on the desired feed; skipped when the level is None
BatteryConstraint(effective_desired, electric_level) ==
    IF IsNone(electric_level) THEN effective_desired
    ELSE LET e1 == IF Val(electric_level) > MAX_CHARGE_LEVEL /\ effective_desired < 0
                   THEN 0 ELSE effective_desired
         IN  IF Val(electric_level) < MIN_CHARGE_LEVEL /\ e1 > 0 THEN 0 ELSE e1

\* slip: only the upper limit is applied
ClampFeed_UpperOnly(effective_desired) == Min(POWER_FEED_MAX, effective_desired)

ClampFeed(effective_desired) ==
    Max(POWER_FEED_MIN, Min(POWER_FEED_MAX, effective_desired))

\* slip: the deadband is not applied
MinThreshold_Off(effective_desired) == effective_desired

MinThreshold(effective_desired) ==
    IF Abs(effective_desired) < POWER_FEED_MIN_THRESHOLD THEN 0 ELSE effective_desired

\* slip: the minimum-delta test is not applied
MinDelta_Off(effective_desired, effective_current) == effective_desired

\* slip: the minimum-delta test uses half of POWER_FEED_MIN_DELTA
MinDelta_Half(effective_desired, effective_current) ==
    IF Abs(effective_desired - effective_current) < POWER_FEED_MIN_DELTA \div 2
    THEN effective_current ELSE effective_desired

MinDelta(effective_desired, effective_current) ==
    IF Abs(effective_desired - effective_current) < POWER_FEED_MIN_DELTA
    THEN effective_current ELSE effective_desired

\* slip: the charge branch does not zero new_output
Reconstruct_KeepsOutput(effective_desired) ==
    IF effective_desired > 0 THEN <<0, effective_desired>>
    ELSE IF effective_desired < 0 THEN <<Abs(effective_desired), Abs(effective_desired)>>
    ELSE <<0, 0>>

\* <<new_input, new_output>>
Reconstruct(effective_desired) ==
    IF effective_desired > 0 THEN <<0, effective_desired>>
    ELSE IF effective_desired < 0 THEN <<Abs(effective_desired), 0>>
    ELSE <<0, 0>>

\* the desired feed after the battery constraints, the clamp and the deadband
DesiredAfterThreshold(p1_power, current_input, current_output, electric_level) ==
    MinThreshold(ClampFeed(BatteryConstraint(
        EffectiveDesired(p1_power, current_input, current_output), electric_level)))

CalculateNewSettings(p1_power, current_input, current_output, electric_level) ==
    Reconstruct(MinDelta(
        DesiredAfterThreshold(p1_power, current_input, current_output, electric_level),
        EffectiveCurrent(current_input, current_output)))

(***************************************************************************)
(* Module constants of automate/device_controller.py.  The module-level    *)
(* MIN_CHARGE_LEVEL / MAX_CHARGE_LEVEL (used by check_battery_limits)      *)
(* differ from the class attributes of the same name; they carry the       *)
(* prefix GLOBAL_ here.                                                    *)
(***************************************************************************)
GLOBAL_MIN_CHARGE_LEVEL == 20
GLOBAL_MAX_CHARGE_LEVEL == 95
MAX_DISCHARGE_POWER == 800
MAX_CHARGE_POWER == 1200
LOOP_INTERVAL_SECONDS == 20
API_REFRESH_INTERVAL_SECONDS == 300
ZERO_COUNT_THRESHOLD == 21

(***************************************************************************)
(* Wall clock: seconds since midnight of day 0 (Europe/Amsterdam, no DST   *)
(* change inside the modelled interval)                                    *)
(***************************************************************************)
DateOf(t) == t \div 86400
HourOf(t) == (t % 86400) \div 3600
MinuteOf(t) == (t % 3600) \div 60
QuarterOf(t) == (MinuteOf(t) \div 15) * 15
HourStart(t) == t - (t % 3600)
DayStart(t) == t - (t % 86400)

\* the three closures of _accumulate_value
QuarterBoundaryTime(last_time) ==
    IF QuarterOf(last_time) = 45 THEN HourStart(last_time) + 3600
    ELSE HourStart(last_time) + (QuarterOf(last_time) + 15) * 60

HourBoundaryTime(last_time) == HourStart(last_time) + 3600

DayBoundaryTime(last_time) == DayStart(last_time) + 86400

(***************************************************************************)
(* PowerAccumulator.  Energy is in watt-seconds; time deltas in seconds.   *)
(***************************************************************************)
InitAccumulators == [quarter |-> 0, hour |-> 0, day |-> 0, manual |-> 0]

InitTracking == [last_value |-> None, last_update_time |-> None,
                 last_quarter |-> None, last_hour |-> None, last_date |-> None]

\* slip: at a boundary the whole interval goes into the new period
AccumulateWithBoundary_NoSplit(acc_value, last_value, last_update_time, last_period, current_period, boundary_time, total_time_delta) ==
    IF IsNone(last_period)
    THEN [acc |-> acc_value + last_value * total_time_delta, period |-> current_period,
          closed |-> None]
    ELSE IF Val(last_period) # current_period
    THEN [acc |-> last_value * total_time_delta, period |-> current_period,
          closed |-> Some(acc_value)]
    ELSE [acc |-> acc_value + last_value * total_time_delta, period |-> Val(last_period),
          closed |-> None]

\* _accumulate_with_boundary for one window.  acc is the accumulator
\* afterwards and period the returned period; closed is the total of the old
\* period as it stood just before the reset (the value logged for the hour
\* window), None when no boundary was crossed
AccumulateWithBoundary(acc_value, last_value, last_update_time, last_period, current_period, boundary_time, total_time_delta) ==
    IF IsNone(last_period)
    THEN [acc |-> acc_value + last_value * total_time_delta, period |-> current_period,
          closed |-> None]
    ELSE IF Val(last_period) # current_period
    THEN LET time_to_boundary == boundary_time - last_update_time
             remaining_time == total_time_delta - time_to_boundary
         IN  [acc |-> IF remaining_time > 0 THEN last_value * remaining_time ELSE 0,
              period |-> current_period,
              closed |-> Some(acc_value + last_value * time_to_boundary)]
    ELSE [acc |-> acc_value + last_value * total_time_delta, period |-> Val(last_period),
          closed |-> None]

\* slip: the manual window starts again at an hour boundary
ManualWindow_ResetsHourly(manual, last_value, total_time_delta, hour_closed) ==
    IF IsNone(hour_closed) THEN manual + last_value * total_time_delta
    ELSE last_value * total_time_delta

\* the manual accumulator after an interval; hour_closed is not used
ManualWindow(manual, last_value, total_time_delta, hour_closed) ==
    manual + last_value * total_time_delta

\* _accumulate_value at time t: [acc |-> accumulators, track |-> tracking,
\* closed |-> the totals of the periods that the call closed]
AccumulateValue(acc, track, value, t) ==
    IF IsNone(track.last_update_time)
    THEN [acc |-> acc,
          track |-> [last_value |-> Some(value), last_update_time |-> Some(t),
                     last_quarter |-> Some(QuarterOf(t)), last_hour |-> Some(HourOf(t)),
                     last_date |-> Some(DateOf(t))],
          closed |-> [quarter |-> None, hour |-> None, day |-> None]]
    ELSE LET lv == Val(track.last_value)
             lt == Val(track.last_update_time)
             total_time_delta == t - lt
             q == AccumulateWithBoundary(acc.quarter, lv, lt, track.last_quarter,
                      QuarterOf(t), QuarterBoundaryTime(lt), total_time_delta)
             h == AccumulateWithBoundary(acc.hour, lv, lt, track.last_hour,
                      HourOf(t), HourBoundaryTime(lt), total_time_delta)
             d == AccumulateWithBoundary(acc.day, lv, lt, track.last_date,
                      DateOf(t), DayBoundaryTime(lt), total_time_delta)
         IN  [acc |-> [quarter |-> q.acc, hour |-> h.acc, day |-> d.acc,
                       manual |-> ManualWindow(acc.manual, lv, total_time_delta, h.closed)],
              track |-> [last_value |-> Some(value), last_update_time |-> Some(t),
                         last_quarter |-> Some(q.period), last_hour |-> Some(h.period),
                         last_date |-> Some(d.period)],
              closed |-> [quarter |-> q.closed, hour |-> h.closed, day |-> d.closed]]

(***************************************************************************)
(* AutomateController                                                      *)
(***************************************************************************)
\* a reading of the inverter (DeviceDataReader.read_zendure): None on error,
\* else its properties, each of which may be missing
ZendureReading(input_limit, output_limit, electric_level) ==
    Some([inputLimit |-> input_limit, outputLimit |-> output_limit,
          electricLevel |-> electric_level])

\* check_battery_limits: the new limit_state
CheckBatteryLimits(zendure_data) ==
    IF IsNone(zendure_data) THEN 0
    ELSE IF IsNone(Val(zendure_data).electricLevel) THEN 0
    ELSE IF Val(Val(zendure_data).electricLevel) <= GLOBAL_MIN_CHARGE_LEVEL THEN 0 - 1
    ELSE IF Val(Val(zendure_data).electricLevel) >= GLOBAL_MAX_CHARGE_LEVEL THEN 1
    ELSE 0

\* slip: the battery-limit test of the final clamp is missing
SafetyClamp_NoLimitState(power_feed, limit) ==
    Max(0 - MAX_DISCHARGE_POWER, Min(MAX_CHARGE_POWER, power_feed))

\* the checks at the head of _send_power_feed
SafetyClamp(power_feed, limit) ==
    LET a == IF power_feed > 0 /\ limit = 1 THEN 0 ELSE power_feed
        b == IF a < 0 /\ limit = 0 - 1 THEN 0 ELSE a
        c == IF b < 0 - MAX_DISCHARGE_POWER THEN 0 - MAX_DISCHARGE_POWER ELSE b
    IN  IF c > MAX_CHARGE_POWER THEN MAX_CHARGE_POWER ELSE c

\* slip: 1 W charges and -1 W discharges
BuildDeviceProperties_FromOne(power_feed, prev) ==
    IF power_feed > 0
    THEN [acMode |-> Some(1), inputLimit |-> Abs(power_feed), outputLimit |-> 0,
          smartMode |-> 1]
    ELSE IF power_feed < 0
    THEN [acMode |-> Some(2), inputLimit |-> 0, outputLimit |-> Abs(power_feed),
          smartMode |-> 1]
    ELSE IF ~IsNone(prev) /\ Val(prev) = 1
    THEN [acMode |-> Some(0), inputLimit |-> 0, outputLimit |-> 0, smartMode |-> 1]
    ELSE [acMode |-> None, inputLimit |-> 0, outputLimit |-> 0, smartMode |-> 1]

\* slip: a stop always writes acMode 0
BuildDeviceProperties_StopIdles(power_feed, prev) ==
    IF power_feed > 1
    THEN [acMode |-> Some(1), inputLimit |-> Abs(power_feed), outputLimit |-> 0,
          smartMode |-> 1]
    ELSE IF power_feed < 0 - 1
    THEN [acMode |-> Some(2), inputLimit |-> 0, outputLimit |-> Abs(power_feed),
          smartMode |-> 1]
    ELSE [acMode |-> Some(0), inputLimit |-> 0, outputLimit |-> 0, smartMode |-> 1]

\* _build_device_properties; acMode is None when the field is left out
\* slip: a controller that has not written yet goes to stand-by as well
BuildDeviceProperties_StandbyFirst(power_feed, prev) ==
    LET stand_by == IsNone(prev) \/ Val(prev) = 1
    IN  IF power_feed > 1
        THEN [acMode |-> Some(1), inputLimit |-> Abs(power_feed), outputLimit |-> 0,
              smartMode |-> 1]
        ELSE IF power_feed < 0 - 1
        THEN [acMode |-> Some(2), inputLimit |-> 0, outputLimit |-> Abs(power_feed),
              smartMode |-> 1]
        ELSE IF stand_by
        THEN [acMode |-> Some(0), inputLimit |-> 0, outputLimit |-> 0, smartMode |-> 1]
        ELSE [acMode |-> None, inputLimit |-> 0, outputLimit |-> 0, smartMode |-> 1]

BuildDeviceProperties(power_feed, prev) ==
    LET stand_by == ~IsNone(prev) /\ Val(prev) = 1
    IN  IF power_feed > 1
        THEN [acMode |-> Some(1), inputLimit |-> Abs(power_feed), outputLimit |-> 0,
              smartMode |-> 1]
        ELSE IF power_feed < 0 - 1
        THEN [acMode |-> Some(2), inputLimit |-> 0, outputLimit |-> Abs(power_feed),
              smartMode |-> 1]
        ELSE IF stand_by
        THEN [acMode |-> Some(0), inputLimit |-> 0, outputLimit |-> 0, smartMode |-> 1]
        ELSE [acMode |-> None, inputLimit |-> 0, outputLimit |-> 0, smartMode |-> 1]

\* the inverter applies a /properties/write: fields left out keep their value
ApplyWrite(dev, properties) ==
    [acMode |-> IF IsNone(properties.acMode) THEN dev.acMode ELSE Val(properties.acMode),
     inputLimit |-> properties.inputLimit,
     outputLimit |-> properties.outputLimit,
     smartMode |-> properties.smartMode]

\* slip: the "unchanged" branch returns without accumulating
SendUnchanged_NoAccumulate(power_feed, prev) ==
    [success |-> TRUE, error |-> None, power |-> power_feed, sent |-> Some(power_feed),
     posted |-> None, delivered |-> FALSE, accumulate |-> FALSE]

\* _send_power_feed, branch "power value unchanged": no POST, accumulate
SendUnchanged(power_feed, prev) ==
    [success |-> TRUE, error |-> None, power |-> power_feed, sent |-> Some(power_feed),
     posted |-> None, delivered |-> FALSE, accumulate |-> TRUE]

\* _send_power_feed.  post_ok is the outcome of the HTTP POST if one is made.
\*   success, error, power : the returned tuple
\*   sent       : the power after the clamp
\*   posted     : the properties of the POST, None if none was made
\*   delivered  : the POST succeeded, the inverter applied it
\*   accumulate : accumulate_power_feed(sent) was called
SendPowerFeed(power_feed, prev, limit, test_mode, post_ok) ==
    LET clamped == SafetyClamp(power_feed, limit)
        properties == BuildDeviceProperties(clamped, prev)
    IN  IF ~IsNone(prev) /\ clamped = Val(prev) THEN SendUnchanged(clamped, prev)
        ELSE IF test_mode
        THEN [success |-> TRUE, error |-> None, power |-> clamped, sent |-> Some(clamped),
              posted |-> None, delivered |-> FALSE, accumulate |-> FALSE]
        ELSE IF post_ok
        THEN [success |-> TRUE, error |-> None, power |-> clamped, sent |-> Some(clamped),
              posted |-> Some(properties), delivered |-> TRUE, accumulate |-> TRUE]
        ELSE [success |-> FALSE, error |-> Some("request failed"), power |-> power_feed,
              sent |-> Some(clamped), posted |-> Some(properties), delivered |-> FALSE,
              accumulate |-> FALSE]

\* a reading of the P1 meter (DeviceDataReader.read_p1_meter): None on error,
\* else the meter's fields, each of which may be missing
P1Reading(total_power, import_kwh, export_kwh) ==
    Some([total_power |-> total_power, total_power_import_kwh |-> import_kwh,
          total_power_export_kwh |-> export_kwh])

\* slip: 'netzero+' is converted as 'netzero' is
ToCliConvention_PlusDischarges(mode, new_settings) ==
    LET new_input == new_settings[1]
        new_output == new_settings[2]
    IN  IF new_output > 0 THEN 0 - new_output
        ELSE IF new_input > 0 THEN new_input ELSE 0

\* the conversion at the end of calculate_netzero_power: <<new_input,
\* new_output>> to one signed value, positive = charge
ToCliConvention(mode, new_settings) ==
    LET new_input == new_settings[1]
        new_output == new_settings[2]
    IN  IF mode = "netzero+"
        THEN IF new_output > 0 THEN 0
             ELSE IF new_input > 0 THEN new_input ELSE 0
        ELSE IF new_output > 0 THEN 0 - new_output
             ELSE IF new_input > 0 THEN new_input ELSE 0

\* calculate_netzero_power: the power, or None when it raises ValueError.
\*   p1_data   : the reading handed in by the caller (None: read it here)
\*   p1_reread : what read_p1_meter returns when called here
\*   zendure   : what read_zendure returns
CalculateNetzeroPower(mode, p1_data, p1_reread, zendure) ==
    LET p1 == IF IsNone(p1_data) THEN p1_reread ELSE p1_data
    IN  IF IsNone(p1) THEN None
        ELSE IF IsNone(Val(p1).total_power) THEN None
        ELSE IF IsNone(zendure) THEN None
        ELSE IF IsNone(Val(zendure).inputLimit) \/ IsNone(Val(zendure).outputLimit)
        THEN None
        ELSE Some(ToCliConvention(mode,
                 CalculateNewSettings(Val(Val(p1).total_power), Val(zendure).inputLimit,
                                      Val(zendure).outputLimit,
                                      Val(zendure).electricLevel)))

\* a value handed to set_power: an int, 'netzero', 'netzero+', or anything else
IntValue(v) == [kind |-> "int", v |-> v]
Netzero == [kind |-> "netzero", v |-> 0]
NetzeroPlus == [kind |-> "netzero+", v |-> 0]
InvalidValue == [kind |-> "invalid", v |-> 0]
NoneValue == [kind |-> "none", v |-> 0]

\* the outcome of a set_power call that never reached _send_power_feed
NotSent(success, power, error, raised) ==
    [success |-> success, power |-> power, error |-> error, raised |-> raised,
     sent |-> None, posted |-> None, delivered |-> FALSE, accumulate |-> FALSE]

\* the PowerResult built from the tuple that _send_power_feed returned
FromSend(s) ==
    [success |-> s.success, power |-> s.power,
     error |-> IF s.success THEN None ELSE Some("Failed to set power feed"),
     raised |-> FALSE, sent |-> s.sent, posted |-> s.posted, delivered |-> s.delivered,
     accumulate |-> s.accumulate]

\* set_power: the PowerResult (success, power, error), raised = a ValueError
\* left the call, and what _send_power_feed did on the way
SetPower(value, p1_data, p1_reread, zendure, prev, limit, test_mode, post_ok) ==
    IF value.kind = "int"
    THEN FromSend(SendPowerFeed(value.v, prev, limit, test_mode, post_ok))
    ELSE IF value.kind \in {"netzero", "netzero+"}
    THEN LET calculated_power == CalculateNetzeroPower(value.kind, p1_data, p1_reread, zendure)
         IN  IF IsNone(calculated_power)
             THEN NotSent(FALSE, 0, Some("Zero feed-in calculation failed"), FALSE)
             ELSE IF test_mode THEN NotSent(TRUE, Val(calculated_power), None, FALSE)
             ELSE FromSend(SendPowerFeed(Val(calculated_power), prev, limit, test_mode, post_ok))
    ELSE NotSent(FALSE, 0, Some("Invalid power value"), TRUE)

\* previous_power after a call with outcome r: set on a successful POST only
\* slip: previous_power is set before the request is made
PreviousPowerAfter_BeforePost(r, prev) ==
    IF ~IsNone(r.posted) THEN r.sent ELSE prev

PreviousPowerAfter(r, prev) ==
    IF r.delivered THEN r.sent ELSE prev

(***************************************************************************)
(* Inputs of the pure-function specification                               *)
(***************************************************************************)
P1Powers ==
    UNION {Near(c) : c \in {0 - 2100, 0 - 1300, 0 - 350, 0 - 250, 0 - 100, 0 - 50,
                            0 - 30, 0, 30, 50, 100, 250, 350, 1300, 2100}}

Limits == {w \in UNION {Near(c) : c \in {0, 30, 50, 100, 300, 800, 1200}} : w >= 0}

\* (inputLimit, outputLimit) as the inverter reports them; a few pairs with
\* both nonzero and with a missing field are kept in
LimitPairs ==
    {<<Some(i), Some(0)>> : i \in Limits} \cup {<<Some(0), Some(o)>> : o \in Limits}
    \cup {<<Some(100), Some(100)>>, <<Some(100), Some(300)>>, <<Some(300), Some(100)>>}
    \cup {<<None, Some(100)>>, <<Some(100), None>>, <<None, None>>}

Levels == {None} \cup {Some(l) : l \in {0, 50, 100} \cup Near(MIN_CHARGE_LEVEL)
                                       \cup Near(MAX_CHARGE_LEVEL)}

\* data/p1_hourly_energy.json.  exists: the file is there; valid: it parses
\* and its fields convert; the three fields of its _metadata object, None
\* when the key is missing or null; data: its other keys, the ledger
HourlyFile(ref_import, ref_export, last_reset_hour, data) ==
    [exists |-> TRUE, valid |-> TRUE, reference_import_kwh |-> ref_import,
     reference_export_kwh |-> ref_export, last_reset_hour |-> last_reset_hour,
     data |-> data]

NoFile ==
    [exists |-> FALSE, valid |-> FALSE, reference_import_kwh |-> None,
     reference_export_kwh |-> None, last_reset_hour |-> None, data |-> {}]

\* a file that json.load rejects
InvalidFile ==
    [exists |-> TRUE, valid |-> FALSE, reference_import_kwh |-> None,
     reference_export_kwh |-> None, last_reset_hour |-> None, data |-> {}]

\* no function is called on its own
FnIdle == fn_args = None /\ fn_result = None

\* PowerAccumulator.__init__ when no hourly file exists yet
LedgerInit ==
    /\ p1_hourly_reference = None
    /\ p1_hourly_last_reset_hour = None
    /\ p1_hourly_data = {}
    /\ p1_hourly_file = NoFile

\* AutomationApp.__init__; run() has not been called
AppInitState ==
    /\ shutdown_requested = FALSE
    /\ old_value = NoneValue
    /\ app_value = IntValue(0)
    /\ zero_count = 0
    /\ last_api_refresh_time = 0
    /\ schedule_data = None
    /\ tick_p1_data = None
    /\ tick_desired_power = NoneValue
    /\ tick_applied = None
    /\ LedgerInit
    /\ last_status = None
    /\ n_status = 0
    /\ exit_path = None
    /\ n_ticks = 0

\* InputHandler.__init__ on a platform that is Windows or is not
InputInit(windows) ==
    input_handler = [windows |-> windows, input_thread |-> "none",
                     input_thread_running |-> FALSE, input_queue |-> <<>>]

\* no AutomationApp is running
AppIdle == pc = "idle" /\ AppInitState /\ InputInit(FALSE)

\* AutomateController.__init__ with a PowerAccumulator that has seen nothing
ControllerInit ==
    /\ previous_power = None
    /\ limit_state = 0
    /\ power_feed_accumulators = InitAccumulators
    /\ power_feed_tracking = InitTracking

\* nobody has called the controller yet
ObserverInit ==
    /\ n_calls = 0
    /\ n_posts = 0
    /\ last_call = None
    /\ scenario_pos = 0

CalcInit ==
    /\ \E p \in P1Powers, lp \in LimitPairs, l \in Levels :
          calc_args = [p1_power |-> p, current_input |-> lp[1],
                       current_output |-> lp[2], electric_level |-> l]
    /\ calc_result = None
    /\ FnIdle
    /\ TEST_MODE = TRUE
    /\ idle_run = FALSE
    /\ ControllerInit
    /\ device = [acMode |-> 0, inputLimit |-> 0, outputLimit |-> 0, smartMode |-> 1]
    /\ now = 0
    /\ ObserverInit
    /\ AppIdle

Calculate ==
    /\ IsNone(calc_result)
    /\ calc_result' = Some(CalculateNewSettings(calc_args.p1_power, calc_args.current_input,
                                                 calc_args.current_output,
                                                 calc_args.electric_level))
    /\ UNCHANGED <<calc_args, fn_args, fn_result, ctl_vars, obs_vars, all_app_vars>>

CalcNext == Calculate

SpecCalc == CalcInit /\ [][CalcNext]_vars

(***************************************************************************)
(* The controller driven by an arbitrary caller (SpecCtl)                  *)
(***************************************************************************)
\* the setpoint sequence of the mode-transition scenario
StopScenario == <<0 - 300, 0 - 300, 0, 0>>

Setpoints == {0 - 900, 0 - 300, 0, 1, 1300}

ReadLevels == {None, Some(GLOBAL_MIN_CHARGE_LEVEL), Some(50), Some(92),
               Some(GLOBAL_MAX_CHARGE_LEVEL)}

\* what read_zendure can return to check_battery_limits while the inverter is in state dev
ZendureReads(dev) ==
    {None} \cup {ZendureReading(Some(dev.inputLimit), Some(dev.outputLimit), l) : l \in ReadLevels}

\* what read_zendure can return to calculate_netzero_power
NetzeroZendureReads(dev) ==
    {None} \cup {ZendureReading(Some(dev.inputLimit), Some(dev.outputLimit), Some(l)) :
                    l \in {50, 92}}

\* p1_data as passed by the caller, and what read_p1_meter returns when it is re-read
P1Passed ==
    {<<None, None>>, <<None, P1Reading(Some(250), Some(5), Some(7))>>,
     <<P1Reading(None, None, None), None>>,
     <<P1Reading(Some(0 - 300), Some(5), Some(7)), None>>}

\* the inverter when the controller is started: idle
InitialDevices ==
    {[acMode |-> 0, inputLimit |-> 0, outputLimit |-> 0, smartMode |-> 1]}

\* 13:59:30 of day 0
StartTimes == {50370}

CalcIdle ==
    /\ calc_args = [p1_power |-> 0, current_input |-> None, current_output |-> None,
                    electric_level |-> None]
    /\ calc_result = None

\* the controller, the inverter and what the callers have observed, as one record
Snapshot ==
    [previous_power |-> previous_power, limit_state |-> limit_state,
     acc |-> power_feed_accumulators, track |-> power_feed_tracking, device |-> device,
     n_calls |-> n_calls, n_posts |-> n_posts, last_call |-> last_call,
     scenario_pos |-> scenario_pos]

\* the record st after one set_power(value, p1_data) call made at time t
AfterSetPower(st, value, p1_data, p1_reread, zendure, post_ok, t) ==
    LET r == SetPower(value, p1_data, p1_reread, zendure, st.previous_power,
                      st.limit_state, TEST_MODE, post_ok)
        a == IF r.accumulate
             THEN AccumulateValue(st.acc, st.track, Val(r.sent), t)
             ELSE [acc |-> st.acc, track |-> st.track,
                   closed |-> [quarter |-> None, hour |-> None, day |-> None]]
    IN  [previous_power |-> PreviousPowerAfter(r, st.previous_power),
         limit_state |-> st.limit_state,
         acc |-> a.acc, track |-> a.track,
         device |-> IF r.delivered THEN ApplyWrite(st.device, Val(r.posted)) ELSE st.device,
         n_calls |-> st.n_calls + 1,
         n_posts |-> st.n_posts + (IF IsNone(r.posted) THEN 0 ELSE 1),
         last_call |-> Some([value |-> value, limit |-> st.limit_state,
                             prev |-> st.previous_power, at |-> t, result |-> r]),
         scenario_pos |->
            IF /\ st.scenario_pos = st.n_calls /\ st.n_calls < Len(StopScenario)
               /\ value = IntValue(StopScenario[st.n_calls + 1])
               /\ ~TEST_MODE /\ st.limit_state # 0 - 1
               /\ (IsNone(r.posted) \/ r.delivered)
            THEN st.scenario_pos + 1 ELSE 0 - 1]

\* the record st after check_battery_limits() has read zendure_data
AfterCheckBatteryLimits(st, zendure_data) ==
    [st EXCEPT !.limit_state = CheckBatteryLimits(zendure_data)]

\* the next state of the controller, the inverter and the observers is st
Install(st) ==
    /\ previous_power' = st.previous_power
    /\ limit_state' = st.limit_state
    /\ power_feed_accumulators' = st.acc
    /\ power_feed_tracking' = st.track
    /\ device' = st.device
    /\ n_calls' = st.n_calls
    /\ n_posts' = st.n_posts
    /\ last_call' = st.last_call
    /\ scenario_pos' = st.scenario_pos

CtlInit ==
    /\ CalcIdle
    /\ FnIdle
    /\ TEST_MODE \in BOOLEAN
    /\ idle_run = FALSE
    /\ ControllerInit
    /\ device \in InitialDevices
    /\ now \in StartTimes
    /\ ObserverInit
    /\ AppIdle

\* check_battery_limits()
CtlCheckBatteryLimits ==
    /\ \E z \in ZendureReads(device) : Install(AfterCheckBatteryLimits(Snapshot, z))
    /\ UNCHANGED <<calc_vars, TEST_MODE, idle_run, now, all_app_vars>>

\* set_power(v) for an int v, LOOP_INTERVAL_SECONDS after the previous call
CtlSetPowerInt ==
    /\ n_calls < MaxCalls
    /\ \E v \in Setpoints, post_ok \in BOOLEAN :
          Install(AfterSetPower(Snapshot, IntValue(v), None, None, None, post_ok,
                                now + LOOP_INTERVAL_SECONDS))
    /\ now' = now + LOOP_INTERVAL_SECONDS
    /\ UNCHANGED <<calc_vars, TEST_MODE, idle_run, all_app_vars>>

\* set_power('netzero') / set_power('netzero+'), with or without p1_data
CtlSetPowerNetzero ==
    /\ n_calls < MaxCalls
    /\ \E value \in {Netzero, NetzeroPlus}, p1 \in P1Passed,
          zendure \in NetzeroZendureReads(device), post_ok \in BOOLEAN :
          Install(AfterSetPower(Snapshot, value, p1[1], p1[2], zendure, post_ok,
                                now + LOOP_INTERVAL_SECONDS))
    /\ now' = now + LOOP_INTERVAL_SECONDS
    /\ UNCHANGED <<calc_vars, TEST_MODE, idle_run, all_app_vars>>

\* set_standby_mode at time t: set_power(1), two seconds, set_power(0)
StandbyStep3(res1, post_ok2, t) ==
    IF Val(res1.last_call).result.success
    THEN AfterSetPower(res1, IntValue(0), None, None, None, post_ok2, t + 2)
    ELSE res1

AfterSetStandbyMode(st, post_ok1, post_ok2, t) ==
    StandbyStep3(AfterSetPower(st, IntValue(1), None, None, None, post_ok1, t), post_ok2, t)

\* set_standby_mode(), LOOP_INTERVAL_SECONDS after the previous call
CtlSetStandbyMode ==
    /\ n_calls + 2 <= MaxCalls
    /\ \E post_ok1 \in BOOLEAN, post_ok2 \in BOOLEAN :
          \E st \in {AfterSetStandbyMode(Snapshot, post_ok1, post_ok2,
                                         now + LOOP_INTERVAL_SECONDS)} :
              /\ Install(st)
              /\ now' = IF st.n_calls = n_calls + 2 THEN now + LOOP_INTERVAL_SECONDS + 2
                        ELSE now + LOOP_INTERVAL_SECONDS
    /\ UNCHANGED <<calc_vars, TEST_MODE, idle_run, all_app_vars>>

CtlNext ==
    \/ CtlCheckBatteryLimits \/ CtlSetPowerInt \/ CtlSetPowerNetzero
    \/ CtlSetStandbyMode

SpecCtl == CtlInit /\ [][CtlNext]_vars

(***************************************************************************)
(* ScheduleController                                                      *)
(***************************************************************************)
\* an entry of the resolved list.  time is the int that its 'time' field
\* converts to, None when the field is missing or does not convert; val is
\* its 'value' field, NoneValue when missing
Entry(time, val) == [time |-> time, value |-> val]

\* int(_get_current_time_str()): HHMM of t
CurrentTimeInt(t) == HourOf(t) * 100 + MinuteOf(t)

\* slip: an entry whose time is the current time does not count yet
FindCurrentScheduleValue_Strict(resolved, current_time) ==
    LET valid == {i \in 1..Len(resolved) :
                     ~IsNone(resolved[i].time) /\ Val(resolved[i].time) < current_time}
    IN  IF valid = {} THEN NoneValue
        ELSE LET m == CHOOSE i \in valid : \A j \in valid :
                         \/ Val(resolved[j].time) < Val(resolved[i].time)
                         \/ (Val(resolved[j].time) = Val(resolved[i].time) /\ i <= j)
             IN  resolved[m].value

\* _find_current_schedule_value: the value of the first entry among those
\* with the largest time <= current_time, NoneValue if there is none
FindCurrentScheduleValue(resolved, current_time) ==
    LET valid == {i \in 1..Len(resolved) :
                     ~IsNone(resolved[i].time) /\ Val(resolved[i].time) <= current_time}
    IN  IF valid = {} THEN NoneValue
        ELSE LET m == CHOOSE i \in valid : \A j \in valid :
                         \/ Val(resolved[j].time) < Val(resolved[i].time)
                         \/ (Val(resolved[j].time) = Val(resolved[i].time) /\ i <= j)
             IN  resolved[m].value

\* get_desired_power(refresh=False) at time t.  fetched is what
\* fetch_schedule stores if it is called: None when it raises.
\*   raised : an exception left the call;  val : the returned value
\*   schedule_data : the cached list afterwards
GetDesiredPower(sched, fetched, t) ==
    LET after == IF IsNone(sched) THEN fetched ELSE sched
    IN  IF IsNone(after)
        THEN [raised |-> TRUE, val |-> NoneValue, schedule_data |-> sched]
        ELSE IF Val(after) = <<>>
        THEN [raised |-> TRUE, val |-> NoneValue, schedule_data |-> after]
        ELSE [raised |-> FALSE,
              val |-> FindCurrentScheduleValue(Val(after), CurrentTimeInt(t)),
              schedule_data |-> after]

(***************************************************************************)
(* PowerAccumulator: hourly P1 ledger                                      *)
(***************************************************************************)
Ledger ==
    [reference |-> p1_hourly_reference, last_reset_hour |-> p1_hourly_last_reset_hour,
     data |-> p1_hourly_data]

\* p1_hourly_data[date][hour] = deltas
StoreHour(data, date, hour, import_delta, export_delta) ==
    {e \in data : ~(e.date = date /\ e.hour = hour)}
    \cup {[date |-> date, hour |-> hour, import_delta_kwh |-> import_delta,
           export_delta_kwh |-> export_delta]}

\* the ledger led, nothing written to the file
Unsaved(led) ==
    [reference |-> led.reference, last_reset_hour |-> led.last_reset_hour,
     data |-> led.data, saved |-> FALSE]

\* slip: a reference of 0 counts as a reference
AccumulateP1ReadingHourly_ZeroIsSeeded(led, import_kwh, export_kwh, t) ==
    IF IsNone(led.reference)
    THEN [reference |-> Some([import_kwh |-> import_kwh, export_kwh |-> export_kwh]),
          last_reset_hour |-> Some(HourOf(t)), data |-> led.data, saved |-> TRUE]
    ELSE IF IsNone(led.last_reset_hour) \/ Val(led.last_reset_hour) # HourOf(t)
    THEN [reference |-> Some([import_kwh |-> import_kwh, export_kwh |-> export_kwh]),
          last_reset_hour |-> Some(HourOf(t)),
          data |-> StoreHour(led.data,
                             IF /\ ~IsNone(led.last_reset_hour)
                                /\ HourOf(t) = 0 /\ Val(led.last_reset_hour) = 23
                             THEN DateOf(t) - 1 ELSE DateOf(t),
                             IF IsNone(led.last_reset_hour) THEN HourOf(t)
                             ELSE Val(led.last_reset_hour),
                             import_kwh - Val(led.reference).import_kwh,
                             export_kwh - Val(led.reference).export_kwh),
          saved |-> TRUE]
    ELSE Unsaved(led)

\* slip: the delta of hour 23 is filed under the new date
AccumulateP1ReadingHourly_NoRollover(led, import_kwh, export_kwh, t) ==
    IF \/ IsNone(led.reference)
       \/ Val(led.reference).import_kwh = 0
       \/ Val(led.reference).export_kwh = 0
    THEN [reference |-> Some([import_kwh |-> import_kwh, export_kwh |-> export_kwh]),
          last_reset_hour |-> Some(HourOf(t)), data |-> led.data, saved |-> TRUE]
    ELSE IF IsNone(led.last_reset_hour) \/ Val(led.last_reset_hour) # HourOf(t)
    THEN [reference |-> Some([import_kwh |-> import_kwh, export_kwh |-> export_kwh]),
          last_reset_hour |-> Some(HourOf(t)),
          data |-> StoreHour(led.data, DateOf(t),
                             IF IsNone(led.last_reset_hour) THEN HourOf(t)
                             ELSE Val(led.last_reset_hour),
                             import_kwh - Val(led.reference).import_kwh,
                             export_kwh - Val(led.reference).export_kwh),
          saved |-> TRUE]
    ELSE Unsaved(led)

\* accumulate_p1_reading_hourly at time t: the ledger afterwards, and
\* saved = it called _save_p1_hourly_data
AccumulateP1ReadingHourly(led, import_kwh, export_kwh, t) ==
    IF \/ IsNone(led.reference)
       \/ Val(led.reference).import_kwh = 0
       \/ Val(led.reference).export_kwh = 0
    THEN [reference |-> Some([import_kwh |-> import_kwh, export_kwh |-> export_kwh]),
          last_reset_hour |-> Some(HourOf(t)), data |-> led.data, saved |-> TRUE]
    ELSE LET import_delta == import_kwh - Val(led.reference).import_kwh
             export_delta == export_kwh - Val(led.reference).export_kwh
             should_reset == \/ IsNone(led.last_reset_hour)
                             \/ Val(led.last_reset_hour) # HourOf(t)
             store_date == IF /\ ~IsNone(led.last_reset_hour)
                              /\ HourOf(t) = 0 /\ Val(led.last_reset_hour) = 23
                           THEN DateOf(t) - 1 ELSE DateOf(t)
             store_hour == IF IsNone(led.last_reset_hour) THEN HourOf(t)
                           ELSE Val(led.last_reset_hour)
         IN  IF should_reset
             THEN [reference |-> Some([import_kwh |-> import_kwh,
                                       export_kwh |-> export_kwh]),
                   last_reset_hour |-> Some(HourOf(t)),
                   data |-> StoreHour(led.data, store_date, store_hour,
                                      import_delta, export_delta),
                   saved |-> TRUE]
             ELSE Unsaved(led)

\* _load_p1_hourly_data: the ledger that __init__ starts with
LoadP1HourlyData(file) ==
    IF ~file.exists \/ ~file.valid
    THEN [reference |-> None, last_reset_hour |-> None, data |-> {}]
    ELSE [reference |-> IF /\ ~IsNone(file.reference_import_kwh)
                           /\ ~IsNone(file.reference_export_kwh)
                        THEN Some([import_kwh |-> Val(file.reference_import_kwh),
                                   export_kwh |-> Val(file.reference_export_kwh)])
                        ELSE None,
          last_reset_hour |-> file.last_reset_hour,
          data |-> file.data]

\* what the write of _save_p1_hourly_data can do to the file: replace it,
\* fail before the file is opened, or fail after it has been truncated
WriteOutcomes == {"written", "failed", "truncated"}

\* _save_p1_hourly_data of the ledger led: the file afterwards
SaveP1HourlyData(file, led, outcome) ==
    IF outcome = "written"
    THEN HourlyFile(IF IsNone(led.reference) THEN None
                    ELSE Some(Val(led.reference).import_kwh),
                    IF IsNone(led.reference) THEN None
                    ELSE Some(Val(led.reference).export_kwh),
                    led.last_reset_hour, led.data)
    ELSE IF outcome = "truncated" THEN InvalidFile
    ELSE file

\* the file after a call of accumulate_p1_reading_hourly that left the ledger as led
FileAfter(file, led, outcome) ==
    IF led.saved THEN SaveP1HourlyData(file, led, outcome) ELSE file

\* the ledger becomes led
InstallLedger(led) ==
    /\ p1_hourly_reference' = led.reference
    /\ p1_hourly_last_reset_hour' = led.last_reset_hour
    /\ p1_hourly_data' = led.data

(***************************************************************************)
(* StatusApi                                                               *)
(***************************************************************************)
Status == [last_status |-> last_status, n_status |-> n_status]

\* post_update(event_type, old_value, new_value), made when calls set_power
\* calls had been made
PostUpdate(stat, event_type, old, new, calls) ==
    [last_status |-> Some([type |-> event_type, oldValue |-> old, newValue |-> new,
                           after_call |-> calls]),
     n_status |-> stat.n_status + 1]

InstallStatus(stat) ==
    /\ last_status' = stat.last_status
    /\ n_status' = stat.n_status

(***************************************************************************)
(* CommandHandler                                                          *)
(***************************************************************************)
NoInput == [cmd |-> "", arg |-> NoneValue]
Command(cmd) == [cmd |-> cmd, arg |-> NoneValue]
PowerCommand(arg) == [cmd |-> "p", arg |-> arg]

(***************************************************************************)
(* InputHandler.  A line of text is the sequence of its characters.        *)
(***************************************************************************)
Whitespace == {" ", "\n"}

RECURSIVE LStrip(_)
LStrip(text) ==
    IF text # <<>> /\ Head(text) \in Whitespace THEN LStrip(Tail(text)) ELSE text

RECURSIVE RStrip(_)
RStrip(text) ==
    IF text # <<>> /\ text[Len(text)] \in Whitespace
    THEN RStrip(SubSeq(text, 1, Len(text) - 1))
    ELSE text

\* str.strip()
Strip(text) == RStrip(LStrip(text))

\* what sys.stdin.readline() can return to the worker: a line that ends with
\* its newline, or the empty string at end of file
EndOfFile == <<>>

StdinLines == {<<"z", "\n">>, <<"q", "\n">>, <<"\n">>}

\* _handle_user_input: the command that user_input is to CommandHandler.handle,
\* NoInput when user_input is None or empty; the texts are one-letter commands
CommandOfInput(user_input) ==
    IF IsNone(user_input) \/ Strip(Val(user_input)) = <<>> THEN NoInput
    ELSE Command(Strip(Val(user_input))[1])

\* start_input_thread
StartInputThread(ih) ==
    IF ih.input_thread # "alive"
    THEN [ih EXCEPT !.input_thread_running = TRUE, !.input_thread = "alive"]
    ELSE ih

\* check_for_input: the commands it can deliver and the handler afterwards.
\* On Windows the thread is started and the queue is asked without waiting;
\* elsewhere select delivers one of typed
CheckForInput(ih, typed) ==
    IF ih.windows
    THEN IF ih.input_queue = <<>>
         THEN {[command |-> NoInput, handler |-> StartInputThread(ih)]}
         ELSE {[command |-> CommandOfInput(Some(Head(ih.input_queue))),
                handler |-> [StartInputThread(ih) EXCEPT
                                !.input_queue = Tail(ih.input_queue)]]}
    ELSE {[command |-> command, handler |-> ih] : command \in typed}

\* stop()
StopInput(ih) ==
    IF ih.windows /\ ih.input_thread_running
    THEN [ih EXCEPT !.input_thread_running = FALSE]
    ELSE ih

\* the commands that call set_power, and those that call it with a netzero mode
SetsPower(command) ==
    \/ command.cmd \in {"z", "nz", "nzp"}
    \/ command.cmd = "p" /\ command.arg.kind \in {"int", "netzero", "netzero+"}

SetsNetzero(command) ==
    \/ command.cmd \in {"nz", "nzp"}
    \/ command.cmd = "p" /\ command.arg.kind \in {"netzero", "netzero+"}

\* a command has called set_power, which left the controller as after: the
\* 'change' event on success.  reported is the newValue of the event,
\* NoneValue for result.power
CommandSetPower(after, sched, stat, reported) ==
    [st |-> after, schedule_data |-> sched,
     status |-> IF Val(after.last_call).result.success
                THEN PostUpdate(stat, "change", NoneValue,
                                IF reported = NoneValue
                                THEN IntValue(Val(after.last_call).result.power)
                                ELSE reported, after.n_calls)
                ELSE stat,
     continue |-> TRUE]

\* the value that command hands to set_power
CommandValue(command) ==
    IF command.cmd = "p" THEN command.arg
    ELSE IF command.cmd = "nz" THEN Netzero
    ELSE IF command.cmd = "nzp" THEN NetzeroPlus
    ELSE IntValue(0)

\* the newValue that command reports in its 'change' event
CommandReported(command) ==
    IF command.cmd = "p" THEN NoneValue ELSE CommandValue(command)

\* CommandHandler.handle(command) at time t: the controller, the cached
\* schedule and the status API afterwards, and the returned flag.
\*   fetched   : what fetch_schedule stores if called (None: it raises)
\*   zendure   : what read_zendure returns;  p1_reread : what read_p1_meter returns
HandleCommand(st, sched, stat, command, fetched, p1_reread, zendure, post_ok, t) ==
    LET same == [st |-> st, schedule_data |-> sched, status |-> stat, continue |-> TRUE]
    IN  IF command.cmd = "s"
        THEN [same EXCEPT !.schedule_data = GetDesiredPower(sched, fetched, t).schedule_data,
                          !.st = AfterCheckBatteryLimits(st, zendure)]
        ELSE IF command.cmd = "r"
        THEN [same EXCEPT !.schedule_data = IF IsNone(fetched) THEN sched ELSE fetched]
        ELSE IF SetsPower(command)
        THEN CommandSetPower(AfterSetPower(st, CommandValue(command), None, p1_reread,
                                           zendure, post_ok, t),
                             sched, stat, CommandReported(command))
        ELSE IF command.cmd = "q"
        THEN [same EXCEPT !.continue = FALSE]
        ELSE same

(***************************************************************************)
(* AutomationApp.run (SpecApp)                                             *)
(***************************************************************************)
\* what read_p1_meter can return to the loop
AppP1Reads ==
    IF idle_run \/ input_handler.windows
    THEN {None, P1Reading(Some(250), Some(5), Some(7))}
    ELSE {None, P1Reading(Some(250), Some(5), Some(7)),
          P1Reading(Some(0 - 300), Some(6), Some(7))}

\* what the write of the hourly file does while the loop runs: it succeeds,
\* or it fails and leaves the file as it was
AppWriteOutcomes ==
    IF idle_run \/ input_handler.windows THEN {"written"} ELSE {"written", "failed"}

\* what read_zendure can return to the loop while the inverter is in state dev
AppZendureReads(dev) ==
    {None} \cup {ZendureReading(Some(dev.inputLimit), Some(dev.outputLimit), Some(l)) :
                    l \in {GLOBAL_MIN_CHARGE_LEVEL, 50, GLOBAL_MAX_CHARGE_LEVEL}}

AppNetzeroZendureReads(dev) ==
    {None, ZendureReading(Some(dev.inputLimit), Some(dev.outputLimit), Some(50))}

\* resolved lists that the schedule API can serve
Schedules ==
    IF idle_run THEN {<<Entry(Some(0), IntValue(0))>>, <<Entry(Some(0), InvalidValue)>>}
    ELSE IF input_handler.windows
    THEN {<<Entry(Some(0), IntValue(0 - 300))>>, <<Entry(Some(0), InvalidValue)>>}
    ELSE {<<Entry(Some(0), Netzero)>>,
          <<Entry(Some(0), IntValue(0 - 300)), Entry(Some(1400), IntValue(0))>>,
          <<Entry(Some(1400), IntValue(0 - 300))>>,
          <<Entry(Some(0), IntValue(300))>>,
          <<Entry(Some(0), InvalidValue)>>,
          <<>>}

\* what fetch_schedule can store: None when it raises
Fetches == {None} \cup {Some(sch) : sch \in Schedules}

\* what the keyboard can deliver to check_for_input through select, in the
\* loop body and during the sleep
Inputs == IF idle_run THEN {NoInput} ELSE {NoInput, Command("q")}

SleepInputs == IF idle_run THEN {NoInput} ELSE {NoInput, Command("z"), Command("q")}

\* 13:59:20 of day 0
AppStartTimes == {50360}

\* the reads and requests that handling command makes: what each can return
FetchesFor(command) == IF command.cmd \in {"s", "r"} THEN Fetches ELSE {None}

P1ReadsFor(command) == IF SetsNetzero(command) THEN AppP1Reads ELSE {None}

ZendureReadsFor(command, dev) ==
    IF command.cmd = "s" THEN AppZendureReads(dev)
    ELSE IF SetsNetzero(command) THEN AppNetzeroZendureReads(dev) ELSE {None}

PostsFor(command) == IF SetsPower(command) THEN BOOLEAN ELSE {TRUE}

\* the statements of run() inside its try block
InLoop == pc \in {"loop", "accumulate", "input", "refresh", "desired", "limits",
                  "apply", "standby", "sleep"}

\* _sleep_interrupted returns at the next second that is in self.steps
NextStep(t) == ((t \div LOOP_INTERVAL_SECONDS) + 1) * LOOP_INTERVAL_SECONDS

\* run() is about to be called, in the world idle
AppInitIn(idle) ==
    /\ CalcIdle
    /\ FnIdle
    /\ TEST_MODE \in BOOLEAN
    /\ idle_run = idle
    /\ ControllerInit
    /\ device \in InitialDevices
    /\ now \in AppStartTimes
    /\ ObserverInit
    /\ pc = "start"
    /\ AppInitState
    /\ InputInit(FALSE)

AppInit == AppInitIn(FALSE)

\* an unattended run: nobody types, the schedule asks for 0 W all day
IdleInit == AppInitIn(TRUE)

\* run(): initialize() and the 'start' event
AppStart ==
    /\ pc = "start"
    /\ \E initialized \in BOOLEAN :
          IF initialized
          THEN /\ pc' = "loop"
               /\ InstallStatus(PostUpdate(Status, "start", NoneValue, NoneValue, n_calls))
               /\ UNCHANGED exit_path
          ELSE /\ pc' = "exited"
               /\ exit_path' = Some("init")
               /\ UNCHANGED status_vars
    /\ UNCHANGED <<calc_vars, TEST_MODE, idle_run, input_handler, now, installed_vars, shutdown_requested, old_value,
                   app_value, zero_count, sched_vars, tick_vars, ledger_vars, n_ticks>>

\* while not self.shutdown_requested
AppLoopTest ==
    /\ pc = "loop"
    /\ IF shutdown_requested
       THEN /\ pc' = "shutdown"
            /\ exit_path' = IF IsNone(exit_path) THEN Some("signal") ELSE exit_path
            /\ UNCHANGED n_ticks
       ELSE /\ n_ticks < (IF idle_run THEN MaxIdleTicks ELSE MaxTicks)
            /\ pc' = "accumulate"
            /\ n_ticks' = n_ticks + 1
            /\ UNCHANGED exit_path
    /\ UNCHANGED <<calc_vars, TEST_MODE, idle_run, input_handler, now, installed_vars, shutdown_requested, old_value,
                   app_value, zero_count, sched_vars, tick_vars, ledger_vars, status_vars>>

\* the reading has all that _accumulate_p1_data needs to call the ledger
ForLedger(reading) ==
    /\ ~IsNone(reading) /\ ~IsNone(Val(reading).total_power)
    /\ ~IsNone(Val(reading).total_power_import_kwh)
    /\ ~IsNone(Val(reading).total_power_export_kwh)

\* slip: the exception of a failed write leaves the loop body
AppAccumulateP1_SaveFailureFatal ==
    /\ pc = "accumulate"
    /\ \E reading \in AppP1Reads, outcome \in AppWriteOutcomes :
          /\ tick_p1_data' = reading
          /\ IF ForLedger(reading)
             THEN \E led \in {AccumulateP1ReadingHourly(Ledger,
                                    Val(Val(reading).total_power_import_kwh),
                                    Val(Val(reading).total_power_export_kwh), now)} :
                     /\ InstallLedger(led)
                     /\ p1_hourly_file' = FileAfter(p1_hourly_file, led, outcome)
                     /\ pc' = IF led.saved /\ outcome # "written" THEN "fatal" ELSE "input"
             ELSE UNCHANGED ledger_vars /\ pc' = "input"
    /\ UNCHANGED <<calc_vars, TEST_MODE, idle_run, input_handler, now, installed_vars, shutdown_requested, old_value,
                   app_value, zero_count, sched_vars, tick_desired_power, tick_applied, status_vars,
                   run_vars>>

\* _accumulate_p1_data.  When the write of the file fails, the exception
\* leaves accumulate_p1_reading_hourly after the ledger has been updated and
\* is caught here; p1_data is returned as read.
AppAccumulateP1 ==
    /\ pc = "accumulate"
    /\ \E reading \in AppP1Reads, outcome \in AppWriteOutcomes :
          /\ tick_p1_data' = reading
          /\ IF ForLedger(reading)
             THEN \E led \in {AccumulateP1ReadingHourly(Ledger,
                                    Val(Val(reading).total_power_import_kwh),
                                    Val(Val(reading).total_power_export_kwh), now)} :
                     /\ InstallLedger(led)
                     /\ p1_hourly_file' = FileAfter(p1_hourly_file, led, outcome)
             ELSE UNCHANGED ledger_vars
    /\ pc' = "input"
    /\ UNCHANGED <<calc_vars, TEST_MODE, idle_run, input_handler, now, installed_vars, shutdown_requested, old_value,
                   app_value, zero_count, sched_vars, tick_desired_power, tick_applied, status_vars,
                   run_vars>>

\* _handle_user_input in the loop body
AppHandleUserInput ==
    /\ pc = "input"
    /\ \E inp \in CheckForInput(input_handler, Inputs) :
       \E fetched \in FetchesFor(inp.command),
          p1_reread \in P1ReadsFor(inp.command),
          zendure \in ZendureReadsFor(inp.command, device),
          post_ok \in PostsFor(inp.command) :
          \E o \in {HandleCommand(Snapshot, schedule_data, Status, inp.command, fetched,
                                  p1_reread, zendure, post_ok, now)} :
              /\ input_handler' = inp.handler
              /\ Install(o.st)
              /\ schedule_data' = o.schedule_data
              /\ InstallStatus(o.status)
              /\ IF o.continue
                 THEN pc' = "refresh" /\ UNCHANGED <<shutdown_requested, exit_path>>
                 ELSE /\ pc' = "shutdown"
                      /\ shutdown_requested' = TRUE
                      /\ exit_path' = Some("quit")
    /\ UNCHANGED <<calc_vars, TEST_MODE, idle_run, now, old_value, app_value, zero_count,
                   last_api_refresh_time, tick_vars, ledger_vars, n_ticks>>

\* slip: a failed refresh throws the cached list away
AppRefreshSchedule_DropsCache ==
    /\ pc = "refresh"
    /\ IF now - last_api_refresh_time >= API_REFRESH_INTERVAL_SECONDS
       THEN \E fetched \in Fetches :
               IF IsNone(fetched)
               THEN schedule_data' = None /\ UNCHANGED <<last_api_refresh_time, status_vars>>
               ELSE /\ schedule_data' = fetched
                    /\ last_api_refresh_time' = now
                    /\ InstallStatus(PostUpdate(Status, "Rescan", NoneValue, NoneValue,
                                                n_calls))
       ELSE UNCHANGED <<sched_vars, status_vars>>
    /\ pc' = "desired"
    /\ UNCHANGED <<calc_vars, TEST_MODE, idle_run, input_handler, now, installed_vars, shutdown_requested,
                   old_value, app_value, zero_count, tick_vars, ledger_vars, run_vars>>

\* _refresh_schedule_if_needed
AppRefreshSchedule ==
    /\ pc = "refresh"
    /\ IF now - last_api_refresh_time >= API_REFRESH_INTERVAL_SECONDS
       THEN \E fetched \in Fetches :
               IF IsNone(fetched)
               THEN UNCHANGED <<sched_vars, status_vars>>
               ELSE /\ schedule_data' = fetched
                    /\ last_api_refresh_time' = now
                    /\ InstallStatus(PostUpdate(Status, "Rescan", NoneValue, NoneValue,
                                                n_calls))
       ELSE UNCHANGED <<sched_vars, status_vars>>
    /\ pc' = "desired"
    /\ UNCHANGED <<calc_vars, TEST_MODE, idle_run, input_handler, now, installed_vars, shutdown_requested, old_value,
                   app_value, zero_count, tick_vars, ledger_vars, run_vars>>

\* slip: a schedule value of None keeps the value of the iteration before
AppCalculateDesired_KeepsOnNone ==
    /\ pc = "desired"
    /\ old_value' = app_value
    /\ \E fetched \in (IF IsNone(schedule_data) THEN Fetches ELSE {None}) :
          LET g == GetDesiredPower(schedule_data, fetched, now)
          IN  /\ schedule_data' = g.schedule_data
              /\ tick_desired_power' = IF g.raised THEN IntValue(0)
                                       ELSE IF g.val = NoneValue THEN app_value
                                       ELSE g.val
    /\ pc' = "limits"
    /\ UNCHANGED <<calc_vars, TEST_MODE, idle_run, input_handler, now, installed_vars, shutdown_requested,
                   app_value, zero_count, last_api_refresh_time, tick_p1_data, tick_applied, ledger_vars,
                   status_vars, run_vars>>

\* self.old_value = self.value; desired_power = self._calculate_desired_power()
AppCalculateDesired ==
    /\ pc = "desired"
    /\ old_value' = app_value
    /\ \E fetched \in (IF IsNone(schedule_data) THEN Fetches ELSE {None}) :
          LET g == GetDesiredPower(schedule_data, fetched, now)
          IN  /\ schedule_data' = g.schedule_data
              /\ tick_desired_power' = IF g.raised \/ g.val = NoneValue THEN IntValue(0)
                                       ELSE g.val
    /\ pc' = "limits"
    /\ UNCHANGED <<calc_vars, TEST_MODE, idle_run, input_handler, now, installed_vars, shutdown_requested, app_value,
                   zero_count, last_api_refresh_time, tick_p1_data, tick_applied, ledger_vars,
                   status_vars, run_vars>>

\* slip: only a charge is vetoed
CheckedDesired_ChargeOnly(desired, limit) ==
    LET validation_power == IF desired = Netzero THEN IntValue(0 - 250)
                            ELSE IF desired = NetzeroPlus THEN IntValue(250)
                            ELSE desired
    IN  IF validation_power.kind = "int" /\ validation_power.v > 0 /\ limit = 1
        THEN IntValue(0) ELSE desired

\* the value that _check_battery_limits returns for desired, given limit_state
CheckedDesired(desired, limit) ==
    LET validation_power == IF desired = Netzero THEN IntValue(0 - 250)
                            ELSE IF desired = NetzeroPlus THEN IntValue(250)
                            ELSE desired
    IN  IF validation_power.kind = "int"
        THEN IF validation_power.v > 0 /\ limit = 1 THEN IntValue(0)
             ELSE IF validation_power.v < 0 /\ limit = 0 - 1 THEN IntValue(0)
             ELSE desired
        ELSE desired

\* desired_power = self._check_battery_limits(desired_power)
AppCheckBatteryLimits ==
    /\ pc = "limits"
    /\ \E zendure \in AppZendureReads(device) :
          \E st \in {AfterCheckBatteryLimits(Snapshot, zendure)} :
              /\ Install(st)
              /\ tick_desired_power' = CheckedDesired(tick_desired_power, st.limit_state)
    /\ pc' = "apply"
    /\ UNCHANGED <<calc_vars, TEST_MODE, idle_run, input_handler, now, shutdown_requested, old_value, app_value,
                   zero_count, sched_vars, tick_p1_data, tick_applied, ledger_vars, status_vars,
                   run_vars>>

\* slip: a fixed setpoint is written again in every iteration
AppApply_Always ==
    /\ pc = "apply"
    /\ IF TRUE
       THEN \E p1_reread \in (IF tick_desired_power \in {Netzero, NetzeroPlus}
                                  /\ IsNone(tick_p1_data) THEN AppP1Reads ELSE {None}),
               zendure \in (IF tick_desired_power \in {Netzero, NetzeroPlus}
                                THEN AppNetzeroZendureReads(device) ELSE {None}),
               post_ok \in BOOLEAN :
               \E st \in {AfterSetPower(Snapshot, tick_desired_power, tick_p1_data,
                                         p1_reread, zendure, post_ok, now)} :
               \E result \in {Val(st.last_call).result} :
                   /\ Install(st)
                   /\ tick_applied' = st.last_call
                   /\ IF result.raised
                      THEN pc' = "fatal" /\ UNCHANGED <<app_value, status_vars>>
                      ELSE /\ pc' = "standby"
                           /\ IF result.success
                              THEN /\ InstallStatus(PostUpdate(Status, "change", old_value,
                                                      IntValue(result.power), st.n_calls))
                                   /\ app_value' = IntValue(result.power)
                              ELSE UNCHANGED <<app_value, status_vars>>
       ELSE /\ app_value' = tick_desired_power
            /\ tick_applied' = None
            /\ pc' = "standby"
            /\ UNCHANGED <<installed_vars, status_vars>>
    /\ UNCHANGED <<calc_vars, TEST_MODE, idle_run, input_handler, now, shutdown_requested,
                   old_value, zero_count, sched_vars, tick_p1_data, tick_desired_power,
                   ledger_vars, run_vars>>

\* slip: a setpoint that could not be applied is recorded as applied
AppApply_RecordsFailed ==
    /\ pc = "apply"
    /\ IF old_value # tick_desired_power \/ tick_desired_power \in {Netzero, NetzeroPlus}
       THEN \E p1_reread \in (IF tick_desired_power \in {Netzero, NetzeroPlus}
                                  /\ IsNone(tick_p1_data) THEN AppP1Reads ELSE {None}),
               zendure \in (IF tick_desired_power \in {Netzero, NetzeroPlus}
                                THEN AppNetzeroZendureReads(device) ELSE {None}),
               post_ok \in BOOLEAN :
               \E st \in {AfterSetPower(Snapshot, tick_desired_power, tick_p1_data,
                                         p1_reread, zendure, post_ok, now)} :
               \E result \in {Val(st.last_call).result} :
                   /\ Install(st)
                   /\ tick_applied' = st.last_call
                   /\ IF result.raised
                      THEN pc' = "fatal" /\ UNCHANGED <<app_value, status_vars>>
                      ELSE /\ pc' = "standby"
                           /\ IF result.success
                              THEN /\ InstallStatus(PostUpdate(Status, "change", old_value,
                                                      IntValue(result.power), st.n_calls))
                                   /\ app_value' = IntValue(result.power)
                              ELSE app_value' = tick_desired_power /\ UNCHANGED status_vars
       ELSE /\ app_value' = tick_desired_power
            /\ tick_applied' = None
            /\ pc' = "standby"
            /\ UNCHANGED <<installed_vars, status_vars>>
    /\ UNCHANGED <<calc_vars, TEST_MODE, idle_run, input_handler, now, shutdown_requested,
                   old_value, zero_count, sched_vars, tick_p1_data, tick_desired_power,
                   ledger_vars, run_vars>>

\* _apply_power_settings(desired_power, p1_data); a ValueError raised by
\* set_power leaves the loop body
AppApply ==
    /\ pc = "apply"
    /\ IF old_value # tick_desired_power \/ tick_desired_power \in {Netzero, NetzeroPlus}
       THEN \E p1_reread \in (IF tick_desired_power \in {Netzero, NetzeroPlus}
                                  /\ IsNone(tick_p1_data) THEN AppP1Reads ELSE {None}),
               zendure \in (IF tick_desired_power \in {Netzero, NetzeroPlus}
                                THEN AppNetzeroZendureReads(device) ELSE {None}),
               post_ok \in BOOLEAN :
               \E st \in {AfterSetPower(Snapshot, tick_desired_power, tick_p1_data,
                                         p1_reread, zendure, post_ok, now)} :
               \E result \in {Val(st.last_call).result} :
                   /\ Install(st)
                   /\ tick_applied' = st.last_call
                   /\ IF result.raised
                      THEN pc' = "fatal" /\ UNCHANGED <<app_value, status_vars>>
                      ELSE /\ pc' = "standby"
                           /\ IF result.success
                              THEN /\ InstallStatus(PostUpdate(Status, "change", old_value,
                                                      IntValue(result.power), st.n_calls))
                                   /\ app_value' = IntValue(result.power)
                              ELSE UNCHANGED <<app_value, status_vars>>
       ELSE /\ app_value' = tick_desired_power
            /\ tick_applied' = None
            /\ pc' = "standby"
            /\ UNCHANGED <<installed_vars, status_vars>>
    /\ UNCHANGED <<calc_vars, TEST_MODE, idle_run, input_handler, now, shutdown_requested,
                   old_value, zero_count, sched_vars, tick_p1_data, tick_desired_power,
                   ledger_vars, run_vars>>

\* slip: the stand-by sequence runs whenever the count is at the threshold or above
AppStandbyCheck_AtLeast ==
    /\ pc = "standby"
    /\ LET count == IF app_value = IntValue(0) THEN zero_count + 1 ELSE 0
       IN  /\ zero_count' = count
           /\ IF count >= ZERO_COUNT_THRESHOLD
              THEN \E post_ok1 \in BOOLEAN, post_ok2 \in BOOLEAN :
                      \E st \in {AfterSetStandbyMode(Snapshot, post_ok1, post_ok2, now)} :
                          /\ Install(st)
                          /\ now' = IF st.n_calls = n_calls + 2 THEN now + 2 ELSE now
              ELSE UNCHANGED <<installed_vars, now>>
    /\ pc' = "sleep"
    /\ UNCHANGED <<calc_vars, TEST_MODE, idle_run, input_handler, shutdown_requested, old_value, app_value,
                   sched_vars, tick_vars, ledger_vars, status_vars, run_vars>>

\* _handle_standby_check
AppStandbyCheck ==
    /\ pc = "standby"
    /\ LET count == IF app_value = IntValue(0) THEN zero_count + 1 ELSE 0
       IN  /\ zero_count' = count
           /\ IF count = ZERO_COUNT_THRESHOLD
              THEN \E post_ok1 \in BOOLEAN, post_ok2 \in BOOLEAN :
                      \E st \in {AfterSetStandbyMode(Snapshot, post_ok1, post_ok2, now)} :
                          /\ Install(st)
                          /\ now' = IF st.n_calls = n_calls + 2 THEN now + 2 ELSE now
              ELSE UNCHANGED <<installed_vars, now>>
    /\ pc' = "sleep"
    /\ UNCHANGED <<calc_vars, TEST_MODE, idle_run, input_handler, shutdown_requested, old_value, app_value,
                   sched_vars, tick_vars, ledger_vars, status_vars, run_vars>>

\* _sleep_interrupted: one input at most arrives during the sleep, and is
\* handled at its start
AppSleep ==
    /\ pc = "sleep"
    /\ pc' = "loop"
    /\ IF shutdown_requested
       THEN UNCHANGED <<installed_vars, now, shutdown_requested, schedule_data, status_vars,
                        exit_path, input_handler>>
       ELSE \E inp \in CheckForInput(input_handler, SleepInputs) :
            \E fetched \in FetchesFor(inp.command),
               p1_reread \in P1ReadsFor(inp.command),
               zendure \in ZendureReadsFor(inp.command, device),
               post_ok \in PostsFor(inp.command) :
               \E o \in {HandleCommand(Snapshot, schedule_data, Status, inp.command, fetched,
                                       p1_reread, zendure, post_ok, now)} :
                   /\ input_handler' = inp.handler
                   /\ Install(o.st)
                   /\ schedule_data' = o.schedule_data
                   /\ InstallStatus(o.status)
                   /\ IF o.continue
                      THEN /\ now' = NextStep(now)
                           /\ UNCHANGED <<shutdown_requested, exit_path>>
                      ELSE /\ now' = now
                           /\ shutdown_requested' = TRUE
                           /\ exit_path' = Some("quit")
    /\ UNCHANGED <<calc_vars, TEST_MODE, idle_run, old_value, app_value, zero_count,
                   last_api_refresh_time, tick_vars, ledger_vars, n_ticks>>

\* _signal_handler: SIGTERM or SIGINT while the loop runs
AppSignal ==
    /\ InLoop
    /\ ~shutdown_requested
    /\ shutdown_requested' = TRUE
    /\ UNCHANGED <<calc_vars, TEST_MODE, idle_run, input_handler, now, installed_vars, pc, old_value, app_value,
                   zero_count, sched_vars, tick_vars, ledger_vars, status_vars, run_vars>>

\* except KeyboardInterrupt
AppKeyboardInterrupt ==
    /\ InLoop
    /\ shutdown_requested' = TRUE
    /\ pc' = "shutdown"
    /\ exit_path' = Some("interrupt")
    /\ UNCHANGED <<calc_vars, TEST_MODE, idle_run, input_handler, now, installed_vars, old_value, app_value,
                   zero_count, sched_vars, tick_vars, ledger_vars, status_vars, n_ticks>>

\* except Exception: the 'stop' event, then raise
AppFatalHandler ==
    /\ pc = "fatal"
    /\ InstallStatus(PostUpdate(Status, "stop", app_value, NoneValue, n_calls))
    /\ pc' = "shutdown"
    /\ exit_path' = Some("fatal")
    /\ UNCHANGED <<calc_vars, TEST_MODE, idle_run, input_handler, now, installed_vars, shutdown_requested, old_value,
                   app_value, zero_count, sched_vars, tick_vars, ledger_vars, n_ticks>>

\* slip: _shutdown posts 'stop' without setting the power to 0
AppShutdown_NoSetPower ==
    /\ pc = "shutdown"
    /\ InstallStatus(PostUpdate(Status, "stop", app_value, NoneValue, n_calls))
    /\ pc' = "exited"
    /\ input_handler' = StopInput(input_handler)
    /\ UNCHANGED <<calc_vars, TEST_MODE, idle_run, now, installed_vars, shutdown_requested, old_value,
                   app_value, zero_count, sched_vars, tick_vars, ledger_vars, run_vars>>

\* finally: _shutdown(): set_power(0), then the 'stop' event
AppShutdown ==
    /\ pc = "shutdown"
    /\ \E post_ok \in BOOLEAN :
          \E st \in {AfterSetPower(Snapshot, IntValue(0), None, None, None, post_ok, now)} :
              /\ Install(st)
              /\ InstallStatus(PostUpdate(Status, "stop", app_value, NoneValue, st.n_calls))
    /\ pc' = "exited"
    /\ input_handler' = StopInput(input_handler)
    /\ UNCHANGED <<calc_vars, TEST_MODE, idle_run, now, shutdown_requested, old_value, app_value,
                   zero_count, sched_vars, tick_vars, ledger_vars, run_vars>>

AppNext ==
    \/ AppStart \/ AppLoopTest \/ AppAccumulateP1 \/ AppHandleUserInput
    \/ AppRefreshSchedule \/ AppCalculateDesired \/ AppCheckBatteryLimits \/ AppApply
    \/ AppStandbyCheck \/ AppSleep \/ AppSignal \/ AppKeyboardInterrupt
    \/ AppFatalHandler \/ AppShutdown

SpecApp == AppInit /\ [][AppNext]_vars

SpecIdle == IdleInit /\ [][AppNext]_vars

(***************************************************************************)
(* AutomationApp.run on Windows, with the input thread (SpecWin)           *)
(***************************************************************************)
\* run() is about to be called on Windows; device writes are enabled
WinInit ==
    /\ CalcIdle
    /\ FnIdle
    /\ TEST_MODE = FALSE
    /\ idle_run = FALSE
    /\ ControllerInit
    /\ device \in InitialDevices
    /\ now \in AppStartTimes
    /\ ObserverInit
    /\ pc = "start"
    /\ AppInitState
    /\ InputInit(TRUE)

\* slip: the worker hands the line to the command handler itself instead of
\* putting it on the queue
InputThreadWorker_Applies ==
    /\ input_handler.input_thread = "alive"
    /\ Len(input_handler.input_queue) < MaxQueued
    /\ \E line \in StdinLines :
       \E command \in {CommandOfInput(Some(Strip(line)))} :
       \E fetched \in FetchesFor(command), p1_reread \in P1ReadsFor(command),
          zendure \in ZendureReadsFor(command, device), post_ok \in PostsFor(command) :
          \E o \in {HandleCommand(Snapshot, schedule_data, Status, command, fetched,
                                  p1_reread, zendure, post_ok, now)} :
              /\ Install(o.st)
              /\ schedule_data' = o.schedule_data
              /\ InstallStatus(o.status)
              /\ input_handler' =
                    [input_handler EXCEPT
                        !.input_thread = IF input_handler.input_thread_running
                                         THEN "alive" ELSE "dead"]
    /\ UNCHANGED <<calc_vars, TEST_MODE, idle_run, now, app_vars, last_api_refresh_time,
                   tick_vars, ledger_vars, run_vars>>

\* _input_thread_worker: one readline() of the running thread returns.  A
\* line is stripped and put on the queue, and the thread goes on if
\* input_thread_running is still set; end of file ends the thread.
InputThreadWorker ==
    /\ input_handler.input_thread = "alive"
    /\ Len(input_handler.input_queue) < MaxQueued
    /\ \E line \in StdinLines \cup {EndOfFile} :
          input_handler' =
              IF line = EndOfFile
              THEN [input_handler EXCEPT !.input_thread = "dead"]
              ELSE [input_handler EXCEPT
                       !.input_queue = Append(@, Strip(line)),
                       !.input_thread = IF input_handler.input_thread_running
                                        THEN "alive" ELSE "dead"]
    /\ UNCHANGED <<calc_vars, TEST_MODE, idle_run, now, installed_vars, app_vars, sched_vars,
                   tick_vars, ledger_vars, status_vars, run_vars>>

WinNext == AppNext \/ InputThreadWorker

SpecWin == WinInit /\ [][WinNext]_vars

(***************************************************************************)
(* run_schedule/automate.py: main() with the functions of                  *)
(* zero_feed_in_controller (SpecOld).  The locals of main() are kept in    *)
(* the variables of the same name: shutdown_flag[0] in shutdown_requested, *)
(* value in app_value, last_api_call_time in last_api_refresh_time, and    *)
(* resolved_data with current_time_str in schedule_data.  The set_power    *)
(* calls are counted in n_calls and the last one is kept in last_call.     *)
(***************************************************************************)
\* what is left untouched by main()
old_frame == <<calc_vars, TEST_MODE, idle_run, input_handler, previous_power, limit_state,
               power_feed_accumulators, power_feed_tracking, device, n_posts,
               scenario_pos, zero_count, tick_vars, ledger_vars>>

\* zero_feed_in_controller.set_power(power): what it returns, or that it
\* raises.  ok: the device write, or the meter read and the write of the
\* netzero calculation, succeed; computed: the power that the netzero
\* calculation arrives at
OldSetPower(power, ok, computed) ==
    IF power.kind = "int"
    THEN IF ok THEN [raised |-> FALSE, power |-> power.v]
         ELSE [raised |-> TRUE, power |-> 0]
    ELSE IF power.kind \in {"netzero", "netzero+", "none"}
    THEN IF ok THEN [raised |-> FALSE, power |-> computed]
         ELSE [raised |-> TRUE, power |-> 0]
    ELSE [raised |-> TRUE, power |-> 0]

\* the powers a netzero calculation can arrive at
OldComputed == {0 - 250, 0}

\* the set_power call of this step and its record
OldCalled(power, r) ==
    /\ n_calls' = n_calls + 1
    /\ last_call' = Some([value |-> power, at |-> now, during |-> pc, result |-> r])

OldNotCalled == UNCHANGED <<n_calls, last_call>>

\* what fetch_schedule_api can return: None, or the response with its
\* 'resolved' list and its 'currentTime'
OldApiData ==
    {None} \cup
    {Some([resolved |-> r, current_time |-> Some(CurrentTimeInt(now))]) :
        r \in {Some(<<Entry(Some(0), IntValue(300))>>),
               Some(<<Entry(Some(0), Netzero)>>),
               Some(<<Entry(Some(1400), IntValue(300))>>),
               Some(<<>>), None}}

\* main() is about to be called
OldInit ==
    /\ CalcIdle
    /\ FnIdle
    /\ TEST_MODE = FALSE
    /\ idle_run = FALSE
    /\ ControllerInit
    /\ device \in InitialDevices
    /\ now \in AppStartTimes
    /\ ObserverInit
    /\ pc = "start"
    /\ AppInitState
    /\ InputInit(FALSE)

\* load_config and the 'start' event
OldStart ==
    /\ pc = "start"
    /\ \E loaded \in BOOLEAN :
          IF loaded
          THEN /\ pc' = "loop"
               /\ InstallStatus(PostUpdate(Status, "start", NoneValue, NoneValue, n_calls))
               /\ UNCHANGED exit_path
          ELSE /\ pc' = "exited"
               /\ exit_path' = Some("init")
               /\ UNCHANGED status_vars
    /\ OldNotCalled
    /\ UNCHANGED <<old_frame, now, shutdown_requested, old_value, app_value, sched_vars,
                   n_ticks>>

\* while True: if shutdown_flag[0]: break
OldLoopTest ==
    /\ pc = "loop"
    /\ IF shutdown_requested
       THEN pc' = "after" /\ UNCHANGED n_ticks
       ELSE /\ n_ticks < MaxOldTicks
            /\ pc' = "refresh"
            /\ n_ticks' = n_ticks + 1
    /\ OldNotCalled
    /\ UNCHANGED <<old_frame, now, shutdown_requested, old_value, app_value, sched_vars,
                   status_vars, exit_path>>

\* the refresh of the schedule when API_REFRESH_INTERVAL_SECONDS have
\* passed (refresh_schedule), and the shutdown test after it
OldRefresh ==
    /\ pc = "refresh"
    /\ IF now - last_api_refresh_time >= API_REFRESH_INTERVAL_SECONDS
       THEN \E api_data \in OldApiData, ok \in BOOLEAN :
               IF IsNone(api_data)
               THEN \E r \in {OldSetPower(IntValue(0), ok, 0)} :
                       /\ OldCalled(IntValue(0), r)
                       /\ schedule_data' = None
                       /\ UNCHANGED last_api_refresh_time
                       /\ pc' = IF r.raised THEN "fatal"
                                ELSE IF shutdown_requested THEN "after" ELSE "apply"
               ELSE /\ OldNotCalled
                    /\ schedule_data' = api_data
                    /\ last_api_refresh_time' = now
                    /\ pc' = IF shutdown_requested THEN "after" ELSE "apply"
       ELSE /\ OldNotCalled
            /\ UNCHANGED sched_vars
            /\ pc' = IF shutdown_requested THEN "after" ELSE "apply"
    /\ UNCHANGED <<old_frame, now, shutdown_requested, old_value, app_value, status_vars,
                   run_vars>>

\* resolved_data and current_time_str are both truthy
OldHasData ==
    /\ ~IsNone(schedule_data)
    /\ ~IsNone(Val(schedule_data).resolved) /\ Val(Val(schedule_data).resolved) # <<>>
    /\ ~IsNone(Val(schedule_data).current_time)

\* the schedule value of the iteration and the set_power call it leads to
OldApply ==
    /\ pc = "apply"
    /\ \E ok \in BOOLEAN, computed \in OldComputed :
          IF OldHasData
          THEN \E v \in {FindCurrentScheduleValue(Val(Val(schedule_data).resolved),
                                                  Val(Val(schedule_data).current_time))} :
               /\ old_value' = app_value
               /\ app_value' = v
               /\ IF v = NoneValue \/ app_value # v \/ v \in {Netzero, NetzeroPlus}
                  THEN \E power \in {IF v = NoneValue THEN IntValue(0) ELSE v} :
                       \E r \in {OldSetPower(power, ok, computed)} :
                          /\ OldCalled(power, r)
                          /\ IF r.raised
                             THEN pc' = "fatal" /\ UNCHANGED status_vars
                             ELSE /\ pc' = "limits"
                                  /\ InstallStatus(PostUpdate(Status, "change", app_value,
                                                              IntValue(r.power),
                                                              n_calls + 1))
                  ELSE /\ OldNotCalled
                       /\ pc' = "limits"
                       /\ UNCHANGED status_vars
          ELSE \E r \in {OldSetPower(IntValue(0), ok, 0)} :
               /\ OldCalled(IntValue(0), r)
               /\ UNCHANGED <<old_value, app_value>>
               /\ IF r.raised
                  THEN pc' = "fatal" /\ UNCHANGED status_vars
                  ELSE /\ pc' = "limits"
                       /\ InstallStatus(PostUpdate(Status, "change", old_value,
                                                   IntValue(r.power), n_calls + 1))
    /\ UNCHANGED <<old_frame, now, shutdown_requested, sched_vars, run_vars>>

\* check_battery_limits(config_path, update=False) and the stop it asks for.
\* zero_feed_in_controller.py does not define the function that main()
\* calls here: the call returns should_stop, or raises
OldCheckBatteryLimits ==
    /\ pc = "limits"
    /\ \E outcome \in {"go", "stop", "raise"}, ok \in BOOLEAN :
          IF outcome = "stop"
          THEN \E r \in {OldSetPower(IntValue(0), ok, 0)} :
               /\ OldCalled(IntValue(0), r)
               /\ IF r.raised
                  THEN pc' = "fatal" /\ UNCHANGED status_vars
                  ELSE /\ pc' = "sleep"
                       /\ InstallStatus(PostUpdate(Status, "change", app_value,
                                                   IntValue(r.power), n_calls + 1))
          ELSE /\ OldNotCalled
               /\ pc' = IF outcome = "raise" THEN "fatal" ELSE "sleep"
               /\ UNCHANGED status_vars
    /\ UNCHANGED <<old_frame, now, shutdown_requested, old_value, app_value, sched_vars,
                   run_vars>>

\* the interruptible sleep and the shutdown test after it
OldSleep ==
    /\ pc = "sleep"
    /\ now' = IF shutdown_requested THEN now ELSE now + LOOP_INTERVAL_SECONDS
    /\ pc' = "loop"
    /\ OldNotCalled
    /\ UNCHANGED <<old_frame, shutdown_requested, old_value, app_value, sched_vars,
                   status_vars, run_vars>>

OldInLoop == pc \in {"loop", "refresh", "apply", "limits", "sleep"}

\* signal_handler: SIGTERM or SIGINT
OldSignal ==
    /\ OldInLoop
    /\ ~shutdown_requested
    /\ shutdown_requested' = TRUE
    /\ OldNotCalled
    /\ UNCHANGED <<old_frame, now, pc, old_value, app_value, sched_vars, status_vars,
                   run_vars>>

\* except KeyboardInterrupt
OldKeyboardInterrupt ==
    /\ OldInLoop
    /\ shutdown_requested' = TRUE
    /\ pc' = "after"
    /\ exit_path' = Some("interrupt")
    /\ OldNotCalled
    /\ UNCHANGED <<old_frame, now, old_value, app_value, sched_vars, status_vars, n_ticks>>

\* except Exception: the 'stop' event, then raise
OldFatalHandler ==
    /\ pc = "fatal"
    /\ InstallStatus(PostUpdate(Status, "stop", app_value, NoneValue, n_calls))
    /\ pc' = "exited"
    /\ exit_path' = Some("fatal")
    /\ OldNotCalled
    /\ UNCHANGED <<old_frame, now, shutdown_requested, old_value, app_value, sched_vars,
                   n_ticks>>

\* after the try statement: if shutdown_flag[0], set_power(0) and the 'stop'
\* event; a set_power that raises here ends the process without the event
OldShutdown ==
    /\ pc = "after"
    /\ shutdown_requested
    /\ \E ok \in BOOLEAN :
       \E r \in {OldSetPower(IntValue(0), ok, 0)} :
          /\ OldCalled(IntValue(0), r)
          /\ IF r.raised
             THEN exit_path' = Some("raised") /\ UNCHANGED status_vars
             ELSE /\ InstallStatus(PostUpdate(Status, "stop", app_value, NoneValue,
                                              n_calls + 1))
                  /\ exit_path' = IF IsNone(exit_path) THEN Some("signal") ELSE exit_path
    /\ pc' = "exited"
    /\ UNCHANGED <<old_frame, now, shutdown_requested, old_value, app_value, sched_vars,
                   n_ticks>>

OldNext ==
    \/ OldStart \/ OldLoopTest \/ OldRefresh \/ OldApply \/ OldCheckBatteryLimits
    \/ OldSleep \/ OldSignal \/ OldKeyboardInterrupt \/ OldFatalHandler \/ OldShutdown

SpecOld == OldInit /\ [][OldNext]_vars

(***************************************************************************)
(* run_schedule/automate2.py: main() with the AutomateController and the   *)
(* ScheduleController of run_schedule/device_controller.py (SpecOop)       *)
(*                                                                         *)
(* The locals of main() are kept in the variables of the same name:        *)
(* shutdown_flag[0] in shutdown_requested, value in app_value, and         *)
(* desired_power in tick_desired_power.  schedule_data holds the response  *)
(* that fetch_schedule stored, with its 'resolved' list and the            *)
(* current_time_str taken from it.  The controller keeps previous_power in *)
(* its internal convention, positive = discharge.  check_battery_limits,   *)
(* calculate_netzero_power and _accumulate_power_feed of this controller   *)
(* compute what CheckBatteryLimits, CalculateNetzeroPower (without a       *)
(* reading handed in) and AccumulateValue compute, with the same           *)
(* constants, and are modelled by them.                                    *)
(***************************************************************************)
\* what is left untouched by main()
oop_frame == <<calc_vars, TEST_MODE, idle_run, input_handler, zero_count, tick_p1_data,
               tick_applied, ledger_vars>>

\* the controller and the inverter
oop_ctl == <<previous_power, limit_state, power_feed_accumulators, power_feed_tracking,
             device, obs_vars>>

\* _build_device_properties(power_feed), positive = charge
RsBuildDeviceProperties(power_feed) ==
    IF power_feed > 0
    THEN [acMode |-> Some(1), inputLimit |-> Abs(power_feed), outputLimit |-> 0,
          smartMode |-> 1]
    ELSE IF power_feed < 0
    THEN [acMode |-> Some(2), inputLimit |-> 0, outputLimit |-> Abs(power_feed),
          smartMode |-> 1]
    ELSE [acMode |-> None, inputLimit |-> 0, outputLimit |-> 0, smartMode |-> 1]

\* _send_power_feed(power_feed), power_feed in the internal convention
\* (positive = discharge); the fields are those of SendPowerFeed, with sent
\* in the internal convention
RsSendPowerFeed(power_feed, prev, limit, test_mode, post_ok) ==
    LET clamped == IF power_feed < 0 /\ limit = 1 THEN 0
                   ELSE IF power_feed > 0 /\ limit = 0 - 1 THEN 0
                   ELSE power_feed
        properties == RsBuildDeviceProperties(clamped * (0 - 1))
    IN  IF ~IsNone(prev) /\ clamped = Val(prev)
        THEN [success |-> TRUE, error |-> None, power |-> clamped, sent |-> Some(clamped),
              posted |-> None, delivered |-> FALSE, accumulate |-> TRUE]
        ELSE IF test_mode
        THEN [success |-> TRUE, error |-> None, power |-> clamped, sent |-> Some(clamped),
              posted |-> None, delivered |-> FALSE, accumulate |-> FALSE]
        ELSE IF post_ok
        THEN [success |-> TRUE, error |-> None, power |-> clamped, sent |-> Some(clamped),
              posted |-> Some(properties), delivered |-> TRUE, accumulate |-> TRUE]
        ELSE [success |-> FALSE, error |-> Some("request failed"), power |-> clamped,
              sent |-> Some(clamped), posted |-> Some(properties), delivered |-> FALSE,
              accumulate |-> FALSE]

\* the PowerResult that set_power builds around a _send_power_feed outcome
\* for the power it was asked for, positive = charge
RsFromSend(s, power) ==
    [success |-> s.success, power |-> power,
     error |-> IF s.success THEN None ELSE Some("Failed to set power feed"),
     raised |-> FALSE, sent |-> s.sent, posted |-> s.posted, delivered |-> s.delivered,
     accumulate |-> s.accumulate]

\* set_power(value): the PowerResult, raised = a ValueError left the call.
\* p1_reread and zendure are what calculate_netzero_power reads
RsSetPower(value, p1_reread, zendure, prev, limit, test_mode, post_ok) ==
    IF value.kind = "int"
    THEN RsFromSend(RsSendPowerFeed(0 - value.v, prev, limit, test_mode, post_ok), value.v)
    ELSE IF value.kind \in {"netzero", "netzero+", "none"}
    THEN LET mode == IF value.kind = "none" THEN "netzero" ELSE value.kind
             calculated_power == CalculateNetzeroPower(mode, None, p1_reread, zendure)
         IN  IF IsNone(calculated_power)
             THEN NotSent(FALSE, 0, Some("Zero feed-in calculation failed"), FALSE)
             ELSE IF test_mode THEN NotSent(TRUE, Val(calculated_power), None, FALSE)
             ELSE RsFromSend(RsSendPowerFeed(0 - Val(calculated_power), prev, limit,
                                             test_mode, post_ok),
                             Val(calculated_power))
    ELSE NotSent(FALSE, 0, Some("Invalid power value"), TRUE)

\* the record st (see Snapshot) after one set_power(value) call made at
\* time t from the place 'during' of main()
RsAfterSetPower(st, value, p1_reread, zendure, post_ok, t, during) ==
    LET r == RsSetPower(value, p1_reread, zendure, st.previous_power, st.limit_state,
                        TEST_MODE, post_ok)
        a == IF r.accumulate
             THEN AccumulateValue(st.acc, st.track, Val(r.sent), t)
             ELSE [acc |-> st.acc, track |-> st.track,
                   closed |-> [quarter |-> None, hour |-> None, day |-> None]]
    IN  [st EXCEPT
            !.previous_power = IF r.delivered THEN r.sent ELSE st.previous_power,
            !.acc = a.acc,
            !.track = a.track,
            !.device = IF r.delivered THEN ApplyWrite(st.device, Val(r.posted))
                       ELSE st.device,
            !.n_calls = st.n_calls + 1,
            !.n_posts = st.n_posts + (IF IsNone(r.posted) THEN 0 ELSE 1),
            !.last_call = Some([value |-> value, limit |-> st.limit_state,
                                prev |-> st.previous_power, at |-> t, during |-> during,
                                old |-> old_value, tick |-> n_ticks, result |-> r])]

\* what fetch_schedule can receive: None when the request fails or the
\* response is refused, else the response with its 'resolved' list and its
\* 'currentTime'
OopApiData ==
    {None} \cup
    {Some([resolved |-> Some(<<Entry(Some(0), v)>>),
           current_time |-> Some(CurrentTimeInt(now))]) :
        v \in {IntValue(300), IntValue(0 - 300), Netzero, InvalidValue}}
    \cup {Some([resolved |-> None, current_time |-> Some(CurrentTimeInt(now))]),
          Some([resolved |-> Some(<<Entry(Some(0), IntValue(300))>>),
                current_time |-> None])}

\* fetch_schedule with response api_data: what the ScheduleController holds
\* afterwards and whether the call raised
RsFetchSchedule(sched, api_data) ==
    IF IsNone(api_data) THEN [raised |-> TRUE, schedule_data |-> sched]
    ELSE [raised |-> IsNone(Val(api_data).current_time), schedule_data |-> api_data]

\* get_desired_power(refresh=False); api_data is the response if it fetches
RsGetDesiredPower(sched, api_data) ==
    LET f == IF IsNone(sched) THEN RsFetchSchedule(sched, api_data)
             ELSE [raised |-> FALSE, schedule_data |-> sched]
        after == f.schedule_data
    IN  IF f.raised \/ IsNone(after)
        THEN [raised |-> TRUE, val |-> NoneValue, schedule_data |-> after]
        ELSE IF IsNone(Val(after).resolved) \/ IsNone(Val(after).current_time)
        THEN [raised |-> TRUE, val |-> NoneValue, schedule_data |-> after]
        ELSE [raised |-> FALSE,
              val |-> FindCurrentScheduleValue(Val(Val(after).resolved),
                                               Val(Val(after).current_time)),
              schedule_data |-> after]

\* steps 3 and 4 of the loop: desired_power after the validation against
\* the limit_state of the controller
OopValidated(desired_power, limit) ==
    LET validation_power ==
            IF desired_power = Netzero THEN IntValue(0 - 250)
            ELSE IF desired_power = NetzeroPlus THEN IntValue(250)
            ELSE desired_power
        should_prevent ==
            /\ validation_power.kind = "int"
            /\ \/ validation_power.v < 0 /\ limit = 1
               \/ validation_power.v > 0 /\ limit = 0 - 1
    IN  IF should_prevent THEN IntValue(0) ELSE desired_power

\* what calculate_netzero_power reads from the P1 meter
OopP1Reads == {None, P1Reading(Some(250), Some(5), Some(7))}

\* main() is about to be called
OopInit ==
    /\ CalcIdle
    /\ FnIdle
    /\ TEST_MODE \in BOOLEAN
    /\ idle_run = FALSE
    /\ ControllerInit
    /\ device \in InitialDevices
    /\ now \in AppStartTimes
    /\ ObserverInit
    /\ pc = "start"
    /\ AppInitState
    /\ InputInit(FALSE)

\* the controllers are built and the 'start' event is posted
OopStart ==
    /\ pc = "start"
    /\ \E loaded \in BOOLEAN :
          IF loaded
          THEN /\ pc' = "loop"
               /\ InstallStatus(PostUpdate(Status, "start", NoneValue, NoneValue, n_calls))
               /\ UNCHANGED exit_path
          ELSE /\ pc' = "exited"
               /\ exit_path' = Some("init")
               /\ UNCHANGED status_vars
    /\ UNCHANGED <<oop_frame, oop_ctl, now, shutdown_requested, old_value, app_value,
                   tick_desired_power, sched_vars, n_ticks>>

\* while True: if shutdown_flag[0]: break
OopLoopTest ==
    /\ pc = "loop"
    /\ IF shutdown_requested
       THEN pc' = "after" /\ UNCHANGED n_ticks
       ELSE /\ n_ticks < MaxOldTicks
            /\ pc' = "refresh"
            /\ n_ticks' = n_ticks + 1
    /\ UNCHANGED <<oop_frame, oop_ctl, now, shutdown_requested, old_value, app_value,
                   tick_desired_power, sched_vars, status_vars, exit_path>>

\* the refresh of the schedule when API_REFRESH_INTERVAL_SECONDS have passed
OopRefresh ==
    /\ pc = "refresh"
    /\ IF now - last_api_refresh_time >= API_REFRESH_INTERVAL_SECONDS
       THEN \E api_data \in OopApiData :
            \E f \in {RsFetchSchedule(schedule_data, api_data)} :
               /\ schedule_data' = f.schedule_data
               /\ last_api_refresh_time' = IF f.raised THEN last_api_refresh_time ELSE now
       ELSE UNCHANGED sched_vars
    /\ pc' = "desired"
    /\ UNCHANGED <<oop_frame, oop_ctl, now, shutdown_requested, old_value, app_value,
                   tick_desired_power, status_vars, run_vars>>

\* step 1: old_value = value, and the desired power of the schedule
OopDesired ==
    /\ pc = "desired"
    /\ old_value' = app_value
    /\ \E api_data \in OopApiData :
       \E g \in {RsGetDesiredPower(schedule_data, api_data)} :
          /\ schedule_data' = g.schedule_data
          /\ tick_desired_power' = IF g.raised \/ g.val = NoneValue THEN IntValue(0)
                                   ELSE g.val
    /\ pc' = "limits"
    /\ UNCHANGED <<oop_frame, oop_ctl, now, shutdown_requested, app_value,
                   last_api_refresh_time, status_vars, run_vars>>

\* steps 2 to 4: check_battery_limits, then the validation of desired_power
OopCheckBatteryLimits ==
    /\ pc = "limits"
    /\ \E z \in AppZendureReads(device) :
       \E st \in {AfterCheckBatteryLimits(Snapshot, z)} :
          /\ Install(st)
          /\ tick_desired_power' = OopValidated(tick_desired_power, st.limit_state)
    /\ pc' = "apply"
    /\ UNCHANGED <<oop_frame, now, shutdown_requested, old_value, app_value, sched_vars,
                   status_vars, run_vars>>

\* step 5: set_power(desired_power) when it differs from old_value, the
\* 'change' event when that succeeded, and value = desired_power
OopApply ==
    /\ pc = "apply"
    /\ IF old_value # tick_desired_power
       THEN \E p1 \in OopP1Reads, zendure \in AppNetzeroZendureReads(device),
               post_ok \in BOOLEAN :
            \E st \in {RsAfterSetPower(Snapshot, tick_desired_power, p1, zendure, post_ok,
                                       now, "apply")} :
               /\ Install(st)
               /\ IF Val(st.last_call).result.raised
                  THEN /\ pc' = "fatal"
                       /\ UNCHANGED <<app_value, status_vars>>
                  ELSE /\ pc' = "sleep"
                       /\ app_value' = tick_desired_power
                       /\ IF Val(st.last_call).result.success
                          THEN InstallStatus(PostUpdate(Status, "change", old_value,
                                   IntValue(Val(st.last_call).result.power), st.n_calls))
                          ELSE UNCHANGED status_vars
       ELSE /\ pc' = "sleep"
            /\ app_value' = tick_desired_power
            /\ UNCHANGED <<oop_ctl, status_vars>>
    /\ UNCHANGED <<oop_frame, now, shutdown_requested, old_value, tick_desired_power,
                   sched_vars, run_vars>>

\* the interruptible sleep and the shutdown test after it
OopSleep ==
    /\ pc = "sleep"
    /\ now' = IF shutdown_requested THEN now ELSE now + LOOP_INTERVAL_SECONDS
    /\ pc' = "loop"
    /\ UNCHANGED <<oop_frame, oop_ctl, shutdown_requested, old_value, app_value,
                   tick_desired_power, sched_vars, status_vars, run_vars>>

OopInLoop == pc \in {"loop", "refresh", "desired", "limits", "apply", "sleep"}

\* signal_handler: SIGTERM or SIGINT
OopSignal ==
    /\ OopInLoop
    /\ ~shutdown_requested
    /\ shutdown_requested' = TRUE
    /\ UNCHANGED <<oop_frame, oop_ctl, now, pc, old_value, app_value, tick_desired_power,
                   sched_vars, status_vars, run_vars>>

\* except KeyboardInterrupt
OopKeyboardInterrupt ==
    /\ OopInLoop
    /\ shutdown_requested' = TRUE
    /\ pc' = "after"
    /\ exit_path' = Some("interrupt")
    /\ UNCHANGED <<oop_frame, oop_ctl, now, old_value, app_value, tick_desired_power,
                   sched_vars, status_vars, n_ticks>>

\* except Exception: the 'stop' event, then raise
OopFatalHandler ==
    /\ pc = "fatal"
    /\ InstallStatus(PostUpdate(Status, "stop", app_value, NoneValue, n_calls))
    /\ pc' = "exited"
    /\ exit_path' = Some("fatal")
    /\ UNCHANGED <<oop_frame, oop_ctl, now, shutdown_requested, old_value, app_value,
                   tick_desired_power, sched_vars, n_ticks>>

\* after the try statement: if shutdown_flag[0], set_power(0) and the
\* 'stop' event
OopShutdown ==
    /\ pc = "after"
    /\ shutdown_requested
    /\ \E post_ok \in BOOLEAN :
          Install(RsAfterSetPower(Snapshot, IntValue(0), None, None, post_ok, now, "after"))
    /\ InstallStatus(PostUpdate(Status, "stop", app_value, NoneValue, n_calls + 1))
    /\ exit_path' = IF IsNone(exit_path) THEN Some("signal") ELSE exit_path
    /\ pc' = "exited"
    /\ UNCHANGED <<oop_frame, now, shutdown_requested, old_value, app_value,
                   tick_desired_power, sched_vars, n_ticks>>

OopNext ==
    \/ OopStart \/ OopLoopTest \/ OopRefresh \/ OopDesired \/ OopCheckBatteryLimits
    \/ OopApply \/ OopSleep \/ OopSignal \/ OopKeyboardInterrupt \/ OopFatalHandler
    \/ OopShutdown

SpecOop == OopInit /\ [][OopNext]_vars

(***************************************************************************)
(* PowerAccumulator driven by an arbitrary caller (SpecAcc, SpecLedger)    *)
(***************************************************************************)
MaxObservations == 4    \* calls made on one PowerAccumulator

\* 13:14:30, 13:59:30 and 23:59:30 of day 0
AccStartTimes == {47670, 50370, 86370}

\* the time between two calls, seconds
Gaps == {20, 60, 3700}

AccValues == {1000, 0 - 300}

\* the cumulative import and export counters of the meter
Counters == {<<5, 7>>, <<6, 7>>, <<6, 0>>}

\* the number of calls made so far
CallsMade == IF IsNone(fn_args) THEN 0 ELSE Val(fn_args).seq

AccInit ==
    /\ CalcIdle
    /\ FnIdle
    /\ TEST_MODE = TRUE
    /\ idle_run = FALSE
    /\ ControllerInit
    /\ device = [acMode |-> 0, inputLimit |-> 0, outputLimit |-> 0, smartMode |-> 1]
    /\ now \in AccStartTimes
    /\ ObserverInit
    /\ AppIdle

\* accumulate_power_feed(power_feed), gap seconds after the call before
AccAccumulatePowerFeed ==
    /\ CallsMade < MaxObservations
    /\ \E power_feed \in AccValues, gap \in (IF CallsMade = 0 THEN {0} ELSE Gaps) :
          \E a \in {AccumulateValue(power_feed_accumulators, power_feed_tracking,
                                    power_feed, now + gap)} :
              /\ power_feed_accumulators' = a.acc
              /\ power_feed_tracking' = a.track
              /\ now' = now + gap
              /\ fn_args' = Some([fn |-> "accumulate_power_feed", value |-> power_feed,
                                  seq |-> CallsMade + 1])
              /\ fn_result' = Some(a.closed)
    /\ UNCHANGED <<calc_args, calc_result, TEST_MODE, idle_run, previous_power, limit_state,
                   device, obs_vars, all_app_vars>>

AccNext == AccAccumulatePowerFeed

SpecAcc == AccInit /\ [][AccNext]_vars

\* accumulate_p1_reading_hourly(import_kwh, export_kwh), gap seconds after
\* the call before
AccAccumulateP1ReadingHourly ==
    /\ CallsMade < MaxObservations
    /\ \E c \in Counters, gap \in (IF CallsMade = 0 THEN {0} ELSE Gaps) :
          \E outcome \in WriteOutcomes :
          \E led \in {AccumulateP1ReadingHourly(Ledger, c[1], c[2], now + gap)} :
          /\ InstallLedger(led)
          /\ p1_hourly_file' = FileAfter(p1_hourly_file, led, outcome)
          /\ now' = now + gap
          /\ fn_args' = Some([fn |-> "accumulate_p1_reading_hourly", import_kwh |-> c[1],
                              export_kwh |-> c[2], seq |-> CallsMade + 1])
    /\ UNCHANGED <<calc_args, calc_result, fn_result, TEST_MODE, idle_run, previous_power,
                   limit_state, power_feed_accumulators, power_feed_tracking, device,
                   obs_vars, app_vars, sched_vars, tick_vars, status_vars, run_vars,
                   input_handler>>

LedgerNext == AccAccumulateP1ReadingHourly

\* the files that a PowerAccumulator can find when it is constructed
PersistedFiles ==
    {NoFile, InvalidFile}
    \cup {HourlyFile(ref[1], ref[2], hour, data) :
             ref \in {<<None, None>>, <<Some(0), None>>, <<Some(0), Some(7)>>,
                      <<Some(5), Some(0)>>, <<Some(5), Some(7)>>},
             hour \in {None, Some(13)},
             data \in {{}, {[date |-> 0, hour |-> 12, import_delta_kwh |-> 1,
                             export_delta_kwh |-> 0]}}}

\* PowerAccumulator.__init__: the ledger is what _load_p1_hourly_data makes
\* of the file
RestartInit ==
    /\ CalcIdle
    /\ FnIdle
    /\ TEST_MODE = TRUE
    /\ idle_run = FALSE
    /\ ControllerInit
    /\ device = [acMode |-> 0, inputLimit |-> 0, outputLimit |-> 0, smartMode |-> 1]
    /\ now \in AccStartTimes
    /\ ObserverInit
    /\ pc = "idle"
    /\ shutdown_requested = FALSE
    /\ old_value = NoneValue
    /\ app_value = IntValue(0)
    /\ zero_count = 0
    /\ last_api_refresh_time = 0
    /\ schedule_data = None
    /\ tick_p1_data = None
    /\ tick_desired_power = NoneValue
    /\ tick_applied = None
    /\ InputInit(FALSE)
    /\ p1_hourly_file \in PersistedFiles
    /\ \E led \in {LoadP1HourlyData(p1_hourly_file)} :
          /\ p1_hourly_reference = led.reference
          /\ p1_hourly_last_reset_hour = led.last_reset_hour
          /\ p1_hourly_data = led.data
    /\ last_status = None
    /\ n_status = 0
    /\ exit_path = None
    /\ n_ticks = 0

SpecLedger == RestartInit /\ [][LedgerNext]_vars

(***************************************************************************)
(* Functions called on their own (SpecFn)                                  *)
(***************************************************************************)
MaxEntries == 3     \* entries of a resolved list handed to the resolver

\* the 'time' field of an entry and the current time are strings: sequences
\* of characters, a digit being its number and any other character -1
RECURSIVE DigitsValue(_)
DigitsValue(s) ==
    IF s = <<>> THEN 0 ELSE DigitsValue(SubSeq(s, 1, Len(s) - 1)) * 10 + s[Len(s)]

\* int(s): None when it raises ValueError
ParseInt(s) ==
    IF s = <<>> \/ (\E i \in 1..Len(s) : s[i] < 0) THEN None ELSE Some(DigitsValue(s))

\* an entry as the API serves it: time is None when the key is missing
RawEntry(time, val) == [time |-> time, value |-> val]

\* the entry with its time converted as _find_current_schedule_value does
ConvertedEntry(raw) ==
    Entry(IF IsNone(raw.time) THEN None ELSE ParseInt(Val(raw.time)), raw.value)

\* _find_current_schedule_value(resolved, current_time) on the strings
FindCurrentScheduleValueStr(resolved, current_time) ==
    FindCurrentScheduleValue([i \in 1..Len(resolved) |-> ConvertedEntry(resolved[i])],
                             Val(ParseInt(current_time)))

\* "0900", "1000", "1800", "1811", "1x00" and a missing key
EntryTimes ==
    {Some(<<0, 9, 0, 0>>), Some(<<1, 0, 0, 0>>), Some(<<1, 8, 0, 0>>),
     Some(<<1, 8, 1, 1>>), Some(<<1, 0 - 1, 0, 0>>), None}

EntryValues == {IntValue(100), IntValue(0 - 200), Netzero}

\* "0859", "0959", "1000", "1811"
CurrentTimes == {<<0, 8, 5, 9>>, <<0, 9, 5, 9>>, <<1, 0, 0, 0>>, <<1, 8, 1, 1>>}

ResolvedLists ==
    UNION {[1..n -> {RawEntry(k, v) : k \in EntryTimes, v \in EntryValues}] :
              n \in 0..MaxEntries}

FindCalls ==
    {[fn |-> "_find_current_schedule_value", resolved |-> r, current_time |-> c] :
        r \in ResolvedLists, c \in CurrentTimes}

\* calculate_netzero_power(mode, p1_data) with the reading handed in, and
\* with no reading handed in and the meter answering or not
NetzeroCalls ==
    {[fn |-> "calculate_netzero_power", mode |-> mode,
      p1_data |-> P1Reading(Some(p), Some(5), Some(7)), p1_reread |-> None,
      zendure |-> ZendureReading(lp[1], lp[2], l)] :
        mode \in {"netzero", "netzero+"}, p \in P1Powers, lp \in LimitPairs, l \in Levels}
    \cup
    {[fn |-> "calculate_netzero_power", mode |-> mode, p1_data |-> None,
      p1_reread |-> reread, zendure |-> z] :
        mode \in {"netzero", "netzero+"},
        reread \in {None, P1Reading(None, Some(5), Some(7)),
                    P1Reading(Some(0 - 300), Some(5), Some(7))},
        z \in {None, ZendureReading(Some(0), Some(0), Some(50))}}

\* _send_power_feed(power_feed) on a controller whose previous_power is prev
\* and whose limit_state is limit; post_ok is the outcome of the POST
PowerFeeds ==
    UNION {Near(c) : c \in {0 - 1200, 0 - 800, 0 - 300, 0 - 2, 0, 2, 300, 800, 1200}}

SendCalls ==
    {[fn |-> "_send_power_feed", power_feed |-> v, prev |-> prev, limit |-> limit,
      test_mode |-> test_mode, post_ok |-> post_ok] :
        v \in PowerFeeds, prev \in {None, Some(0 - 300), Some(0), Some(1), Some(300)},
        limit \in {0 - 1, 0, 1}, test_mode \in BOOLEAN, post_ok \in BOOLEAN}

\* check_battery_limits() with read_zendure failing, answering without a
\* level, and answering with every level from 0 to 100
LimitCalls ==
    {[fn |-> "check_battery_limits", zendure |-> z] :
        z \in {None, ZendureReading(Some(0), Some(0), None)}
              \cup {ZendureReading(Some(0), Some(0), Some(l)) : l \in 0..100}}

FnInit ==
    /\ CalcIdle
    /\ fn_args \in {Some(c) : c \in FindCalls \cup NetzeroCalls \cup SendCalls
                                     \cup LimitCalls}
    /\ fn_result = None
    /\ TEST_MODE = TRUE
    /\ idle_run = FALSE
    /\ ControllerInit
    /\ device = [acMode |-> 0, inputLimit |-> 0, outputLimit |-> 0, smartMode |-> 1]
    /\ now = 0
    /\ ObserverInit
    /\ AppIdle

FnFindCurrentScheduleValue ==
    /\ IsNone(fn_result)
    /\ Val(fn_args).fn = "_find_current_schedule_value"
    /\ fn_result' = Some(FindCurrentScheduleValueStr(Val(fn_args).resolved,
                                                     Val(fn_args).current_time))
    /\ UNCHANGED <<calc_args, calc_result, fn_args, ctl_vars, obs_vars, all_app_vars>>

\* the returned power, None when the call raises
FnCalculateNetzeroPower ==
    /\ IsNone(fn_result)
    /\ Val(fn_args).fn = "calculate_netzero_power"
    /\ fn_result' = Some(CalculateNetzeroPower(Val(fn_args).mode, Val(fn_args).p1_data,
                                               Val(fn_args).p1_reread, Val(fn_args).zendure))
    /\ UNCHANGED <<calc_args, calc_result, fn_args, ctl_vars, obs_vars, all_app_vars>>

\* what the call returns and what it POSTs
FnSendPowerFeed ==
    /\ IsNone(fn_result)
    /\ Val(fn_args).fn = "_send_power_feed"
    /\ fn_result' = Some(SendPowerFeed(Val(fn_args).power_feed, Val(fn_args).prev,
                                       Val(fn_args).limit, Val(fn_args).test_mode,
                                       Val(fn_args).post_ok))
    /\ UNCHANGED <<calc_args, calc_result, fn_args, ctl_vars, obs_vars, all_app_vars>>

\* the limit_state that the call sets
FnCheckBatteryLimits ==
    /\ IsNone(fn_result)
    /\ Val(fn_args).fn = "check_battery_limits"
    /\ fn_result' = Some(CheckBatteryLimits(Val(fn_args).zendure))
    /\ UNCHANGED <<calc_args, calc_result, fn_args, ctl_vars, obs_vars, all_app_vars>>

FnNext ==
    \/ FnFindCurrentScheduleValue \/ FnCalculateNetzeroPower \/ FnSendPowerFeed
    \/ FnCheckBatteryLimits

SpecFn == FnInit /\ [][FnNext]_vars

(***************************************************************************)
(* Properties of _calculate_new_settings (checked under SpecCalc)          *)
(***************************************************************************)
\* the call's arguments and result, read off the state
ArgP1 == calc_args.p1_power
ArgIn == IF calc_args.current_input = <<>> THEN 0 ELSE calc_args.current_input[1]
ArgOut == IF calc_args.current_output = <<>> THEN 0 ELSE calc_args.current_output[1]
ArgLevelKnown == calc_args.electric_level # <<>>
ArgLevel == calc_args.electric_level[1]
ArgCurrent == ArgOut - ArgIn            \* effectiveCurrent
ArgDesired == ArgOut - ArgIn + ArgP1    \* effectiveDesired before any gating
Returned == calc_result # <<>>
NewInput == calc_result[1][1]
NewOutput == calc_result[1][2]
NewFeed == NewOutput - NewInput
\* the desired feed after SoC gating and clamping, as the code computes it
ArgGatedClamped == ClampFeed(BatteryConstraint(ArgDesired, calc_args.electric_level))
\* ... and after the deadband as well
ArgAfterDeadband == MinThreshold(ArgGatedClamped)

\* C1: when currentInput x currentOutput = 0, the returned pair never has
\* both newInput and newOutput nonzero.
C1_NeverBothNonzero ==
    (Returned /\ ArgIn * ArgOut = 0) => ~(NewInput # 0 /\ NewOutput # 0)

\* C1 witness: a discharging inverter is turned round into a charge
C1_Witness ==
    Returned /\ ArgIn = 0 /\ ArgOut > 0 /\ NewInput > 0 /\ NewOutput = 0

C8_DeadbandAlwaysZero ==
    (Returned /\ Abs(ArgGatedClamped) < 30) => NewFeed = 0

\* C8 amended: whenever the desired feed after SoC gating and clamping is
\* below 30 W in absolute value, the returned effective feed is 0 if the
\* current effective feed is at least 50 W in absolute value, and is the
\* current effective feed (kept by the minimum-delta rule) otherwise.
C8_Deadband ==
    (Returned /\ Abs(ArgGatedClamped) < 30) =>
        NewFeed = (IF Abs(ArgCurrent) < 50 THEN ArgCurrent ELSE 0)

\* C8 witness: a small nonzero desired feed is snapped to 0 and applied
C8_Witness ==
    /\ Returned /\ ArgGatedClamped # 0 /\ Abs(ArgGatedClamped) < 30
    /\ Abs(ArgCurrent) >= 50 /\ NewFeed = 0

\* C9 as claimed: whenever |effectiveDesired - effectiveCurrent| < 50 with
\* effectiveDesired = effectiveCurrent + gridPower, the returned feed is
\* effectiveCurrent.
C9_HysteresisOnRawDesired ==
    (Returned /\ Abs(ArgDesired - ArgCurrent) < 50) => NewFeed = ArgCurrent

\* C9 amended: whenever |E - effectiveCurrent| < 50, where E is the desired
\* feed after SoC gating, clamping and the deadband, the returned feed is
\* effectiveCurrent.
C9_Hysteresis ==
    (Returned /\ Abs(ArgAfterDeadband - ArgCurrent) < 50) => NewFeed = ArgCurrent

\* C9 witness: a change of less than 50 W was wanted and the current feed kept
C9_Witness ==
    /\ Returned /\ ArgAfterDeadband # ArgCurrent
    /\ Abs(ArgAfterDeadband - ArgCurrent) < 50
    /\ ArgCurrent # 0 /\ NewFeed = ArgCurrent

\* C10: with currentInput x currentOutput = 0, 20 < soc < 90,
\* D = currentOutput - currentInput + gridPower within [-800, 1200],
\* |D| >= 30 and |gridPower| >= 50, the result is the decomposition of D:
\* (0, D) if D > 0 and (|D|, 0) if D < 0.
C10_NominalResult ==
    ( /\ Returned /\ ArgIn * ArgOut = 0
      /\ ArgLevelKnown /\ 20 < ArgLevel /\ ArgLevel < 90
      /\ 0 - 800 <= ArgDesired /\ ArgDesired <= 1200
      /\ Abs(ArgDesired) >= 30 /\ Abs(ArgP1) >= 50 )
    => /\ ArgDesired > 0 => (NewInput = 0 /\ NewOutput = ArgDesired)
       /\ ArgDesired < 0 => (NewInput = 0 - ArgDesired /\ NewOutput = 0)

\* C10 witness: grid +250 W, inverter {input 0, output 100}, SoC 50 -> {0, 350}
C10_Witness ==
    /\ Returned /\ ArgP1 = 250 /\ ArgIn = 0 /\ ArgOut = 100
    /\ ArgLevelKnown /\ ArgLevel = 50
    /\ NewInput = 0 /\ NewOutput = 350


(***************************************************************************)
(* Properties of _send_power_feed / set_power (checked under SpecCtl)      *)
(***************************************************************************)
Called == ~IsNone(last_call)
LastCall == Val(last_call)
LastResult == LastCall.result
Wrote == Called /\ ~IsNone(LastResult.posted)
LastWrite == Val(LastResult.posted)
StopWrite == [acMode |-> None, inputLimit |-> 0, outputLimit |-> 0, smartMode |-> 1]

\* C3: every command POSTed to the inverter has inputLimit = 0 if
\* limit_state was 1 (at maximum) when it was sent, outputLimit = 0 if
\* limit_state was -1 (at minimum), inputLimit <= MAX_CHARGE_POWER and
\* outputLimit <= MAX_DISCHARGE_POWER, whatever value set_power was given.
C3_SafetyClampOnEveryWrite ==
    Wrote =>
        /\ (LastCall.limit = 1 => LastWrite.inputLimit = 0)
        /\ (LastCall.limit = 0 - 1 => LastWrite.outputLimit = 0)
        /\ LastWrite.inputLimit >= 0 /\ LastWrite.inputLimit <= 1200
        /\ LastWrite.outputLimit >= 0 /\ LastWrite.outputLimit <= 800

\* a charge of 1300 W asked for at maximum level was written as inputLimit 0
C3_Witness ==
    /\ Wrote
    /\ LastCall.limit = 1 /\ LastCall.value = IntValue(1300)
    /\ LastResult.delivered /\ LastWrite.inputLimit = 0 /\ LastWrite.outputLimit = 0

C7_IdempotentSend ==
    [][ (/\ n_calls' = n_calls + 1
         /\ ~IsNone(previous_power)
         /\ ~IsNone(Val(last_call').result.sent)
         /\ Val(Val(last_call').result.sent) = Val(previous_power))
        => (/\ IsNone(Val(last_call').result.posted)
            /\ n_posts' = n_posts
            /\ Val(last_call').result.success
            /\ Val(last_call').result.power = Val(previous_power)
            /\ device' = device
            /\ previous_power' = previous_power
            /\ ~IsNone(power_feed_tracking.last_update_time)
            /\ power_feed_accumulators'.manual =
                  power_feed_accumulators.manual
                  + Val(previous_power) * (now' - Val(power_feed_tracking.last_update_time))
            /\ power_feed_tracking'.last_update_time = Some(now')
            /\ power_feed_tracking'.last_value = previous_power) ]_vars

\* -300 W was sent, then asked for again 20 s later: nothing written, 6000 Ws
\* of discharge accumulated
C7_Witness ==
    /\ Called /\ ~Wrote /\ LastResult.success
    /\ LastCall.prev = Some(0 - 300) /\ LastResult.sent = Some(0 - 300)
    /\ n_calls = 2 /\ n_posts = 1
    /\ power_feed_accumulators.manual = (0 - 300) * LOOP_INTERVAL_SECONDS

(***************************************************************************)
(* Properties of AutomationApp.run (checked under SpecApp)                 *)
(***************************************************************************)
Exited(path) == pc = "exited" /\ exit_path = Some(path)

\* C5: when run() has left its loop because of a signal, the quit command,
\* KeyboardInterrupt or an exception escaping an iteration, and has
\* returned, the last set_power call was set_power(0) and the last status
\* event is 'stop', posted after that call.
C5_ShutdownZeroThenStop ==
    (Exited("signal") \/ Exited("quit") \/ Exited("interrupt") \/ Exited("fatal")) =>
        /\ Called /\ LastCall.value = IntValue(0)
        /\ ~IsNone(last_status)
        /\ Val(last_status).type = "stop"
        /\ Val(last_status).after_call = n_calls

\* run() has ended on an exception after a discharge had been sent: the
\* shutdown wrote the zero command and three events or more were posted
C5_Witness ==
    /\ Exited("fatal")
    /\ Called
    /\ LastCall.value = IntValue(0) /\ LastResult.delivered
    /\ LastCall.prev = Some(0 - 300)
    /\ Val(last_status).type = "stop" /\ Val(last_status).after_call = n_calls
    /\ device.outputLimit = 0

\* C6 as stated: an iteration whose netzero / netzero+ calculation fails
\* while a nonzero power is in force (device writes enabled) sends the zero
\* command in that iteration.
C6_FailSafeToZero ==
    [][ (/\ pc = "apply" /\ pc' = "standby"
         /\ tick_desired_power \in {Netzero, NetzeroPlus}
         /\ ~TEST_MODE
         /\ ~IsNone(previous_power) /\ Val(previous_power) # 0
         /\ Val(last_call').result.error = Some("Zero feed-in calculation failed"))
        => (/\ n_posts' = n_posts + 1
            /\ ~IsNone(Val(last_call').result.posted)
            /\ Val(Val(last_call').result.posted).inputLimit = 0
            /\ Val(Val(last_call').result.posted).outputLimit = 0) ]_vars

\* what the code leaves behind: the calculation has failed in the second
\* iteration and the 250 W discharge of the first is still in force
C6_Witness ==
    /\ pc = "standby" /\ n_ticks = 2 /\ ~TEST_MODE
    /\ Called
    /\ LastResult.error = Some("Zero feed-in calculation failed")
    /\ IsNone(LastResult.posted)
    /\ previous_power = Some(0 - 250)
    /\ device.acMode = 2 /\ device.outputLimit = 250
    /\ app_value = IntValue(0 - 250)

(***************************************************************************)
(* Properties of the functions called on their own (checked under SpecFn)  *)
(***************************************************************************)
FnCall == Val(fn_args)
FnReturned(fn) == ~IsNone(fn_args) /\ FnCall.fn = fn /\ ~IsNone(fn_result)
FnValue == Val(fn_result)

\* the number that a key of four digits stands for
KeyOf(k) == k[1] * 1000 + k[2] * 100 + k[3] * 10 + k[4]
IsKey(time) == ~IsNone(time) /\ (\A i \in 1..4 : Val(time)[i] >= 0)
\* every entry of the call has an integer key and no two share one
UniqueIntegerKeys ==
    /\ \A i \in 1..Len(FnCall.resolved) : IsKey(FnCall.resolved[i].time)
    /\ \A i, j \in 1..Len(FnCall.resolved) :
          i # j => KeyOf(Val(FnCall.resolved[i].time)) # KeyOf(Val(FnCall.resolved[j].time))
\* the entries whose key is at most the current time
Qualifying ==
    {i \in 1..Len(FnCall.resolved) :
        KeyOf(Val(FnCall.resolved[i].time)) <= KeyOf(FnCall.current_time)}

\* C11: for entries with unique integer keys, _find_current_schedule_value
\* returns the value of the entry with the largest key <= the current time,
\* and None exactly when no entry has a key <= the current time.
C11_ScheduleResolver ==
    (FnReturned("_find_current_schedule_value") /\ UniqueIntegerKeys) =>
        /\ (Qualifying = {} <=> FnValue = NoneValue)
        /\ \A i \in Qualifying :
              (\A j \in Qualifying : KeyOf(Val(FnCall.resolved[j].time))
                                        <= KeyOf(Val(FnCall.resolved[i].time)))
              => FnValue = FnCall.resolved[i].value

\* [("1000", 100), ("1800", -200)] resolves to -200 at "1811"
C11_Witness ==
    /\ FnReturned("_find_current_schedule_value")
    /\ FnCall.resolved = <<RawEntry(Some(<<1, 0, 0, 0>>), IntValue(100)),
                           RawEntry(Some(<<1, 8, 0, 0>>), IntValue(0 - 200))>>
    /\ FnCall.current_time = <<1, 8, 1, 1>>
    /\ FnValue = IntValue(0 - 200)

\* the call of calculate_netzero_power returned a power (did not raise)
NetzeroReturned ==
    FnReturned("calculate_netzero_power") /\ ~IsNone(FnValue)
\* what _calculate_new_settings gives for the call's readings
NetzeroSettings ==
    CalculateNewSettings(Val(Val(FnCall.p1_data).total_power), Val(FnCall.zendure).inputLimit,
                         Val(FnCall.zendure).outputLimit, Val(FnCall.zendure).electricLevel)

WroteAsAsked ==
    /\ FnReturned("_send_power_feed")
    /\ ~IsNone(FnValue.posted)
    /\ FnValue.sent = Some(FnCall.power_feed)
WrittenCommand == Val(FnValue.posted)

LevelRead ==
    /\ FnReturned("check_battery_limits")
    /\ ~IsNone(FnCall.zendure) /\ ~IsNone(Val(FnCall.zendure).electricLevel)
Soc == Val(Val(FnCall.zendure).electricLevel)

\* C15 as stated: limit_state is -1 (AtMinimum) iff soc <= 20, 1 (AtMaximum)
\* iff soc >= 90, the maximum that _calculate_new_settings gates on, and 0
\* (Nominal) otherwise.
C15_LimitStateClassification ==
    LevelRead =>
        /\ (FnValue = 0 - 1 <=> Soc <= 20)
        /\ (FnValue = 1 <=> Soc >= 90)
        /\ (FnValue = 0 <=> (20 < Soc /\ Soc < 90))

\* at 92 % the level is above the maximum of _calculate_new_settings and
\* check_battery_limits still reports no limit
C15_Witness ==
    /\ LevelRead /\ Soc = 92 /\ Soc > MAX_CHARGE_LEVEL
    /\ FnValue = 0

(***************************************************************************)
(* Properties of an unattended run (checked under SpecIdle)                *)
(***************************************************************************)
IdleCommand == [acMode |-> Some(0), inputLimit |-> 0, outputLimit |-> 0, smartMode |-> 1]

\* C14 as stated: in the iteration in which the applied power has been 0 for
\* ZERO_COUNT_THRESHOLD iterations in a row, with device writes enabled and
\* both set_power calls of the standby sequence returning success, the last
\* write of the sequence is {acMode 0, inputLimit 0, outputLimit 0}.
C14_StandbyParks ==
    [][ (/\ pc = "standby" /\ pc' = "sleep"
         /\ zero_count' = ZERO_COUNT_THRESHOLD
         /\ ~TEST_MODE
         /\ n_calls' = n_calls + 2
         /\ Val(last_call').result.success)
        => (/\ Val(last_call').value = IntValue(0)
            /\ Val(last_call').result.posted = Some(IdleCommand)
            /\ n_posts' = n_posts + 2) ]_vars

\* what the code leaves behind when the battery is at its maximum level: the
\* 21st idle iteration has run the standby sequence, both calls returned
\* success, and the one write made was {inputLimit 0, outputLimit 0}
C14_Witness ==
    /\ pc = "sleep" /\ zero_count = ZERO_COUNT_THRESHOLD /\ ~TEST_MODE
    /\ limit_state = 1
    /\ n_calls = 2 /\ n_posts = 1
    /\ Called /\ LastCall.value = IntValue(0) /\ LastResult.success
    /\ LastCall.prev = Some(0) /\ IsNone(LastResult.posted)
    /\ previous_power = Some(0)

(***************************************************************************)
(* Properties of the schedule in the loop (checked under SpecApp)          *)
(***************************************************************************)
\* the HHMM number of the wall clock
ClockKey == HourOf(now) * 100 + MinuteOf(now)
\* the entries of the list sched that are due
Due(sched) ==
    {i \in 1..Len(sched) : ~IsNone(sched[i].time) /\ Val(sched[i].time) <= ClockKey}
\* the value that the list sched gives now: its latest due entry's, 0 if
\* none is due (the lists of the model have no two entries with one time)
Resolved(sched) ==
    IF Due(sched) = {} THEN IntValue(0)
    ELSE sched[CHOOSE i \in Due(sched) :
                  \A j \in Due(sched) : Val(sched[j].time) <= Val(sched[i].time)].value
\* the step of _refresh_schedule_if_needed in which the refresh was due and failed
RefreshFailed ==
    /\ pc = "refresh" /\ pc' = "desired"
    /\ now - last_api_refresh_time >= API_REFRESH_INTERVAL_SECONDS
    /\ last_api_refresh_time' = last_api_refresh_time
\* the step of _calculate_desired_power
DesiredStep == pc = "desired" /\ pc' = "limits"

C17_NotFoundGivesZero ==
    [][ (/\ DesiredStep
         /\ \/ IsNone(schedule_data')
            \/ Val(schedule_data') = <<>>
            \/ Due(Val(schedule_data')) = {})
        => tick_desired_power' = IntValue(0) ]_vars

\* -300 W was applied in the first iteration; the list refreshed in the
\* second has nothing due before 14:00 and the desired setpoint is 0
C17_Witness ==
    /\ pc = "limits" /\ n_ticks = 2
    /\ old_value = IntValue(0 - 300)
    /\ schedule_data = Some(<<Entry(Some(1400), IntValue(0 - 300))>>)
    /\ ClockKey = 1359
    /\ tick_desired_power = IntValue(0)

(***************************************************************************)
(* Properties of the PowerAccumulator (checked under SpecAcc, SpecLedger)  *)
(***************************************************************************)
\* a step of accumulate_power_feed that is not the first observation
Interval ==
    /\ ~IsNone(fn_args') /\ Val(fn_args').fn = "accumulate_power_feed"
    /\ Val(fn_args').seq = CallsMade + 1
    /\ ~IsNone(power_feed_tracking.last_update_time)
\* the interval's start, and the value observed then
LastTimestamp == Val(power_feed_tracking.last_update_time)
LastValue == Val(power_feed_tracking.last_value)
\* the first boundary after the interval's start of a window of len seconds
\* (900: quarter, 3600: hour, 86400: day)
Boundary(len) == ((LastTimestamp \div len) + 1) * len
\* the interval ends in the period that follows the one it starts in
StraddlesOne(len) == Boundary(len) <= now' /\ now' < Boundary(len) + len

\* C18: when an interval between two observations straddles exactly one
\* boundary of a window, the old period is closed with its total plus
\* lastValue x (boundary - lastTimestamp), and the window then holds
\* lastValue x (now - boundary), in watt-seconds.
C18_BoundarySplit ==
    [][ Interval =>
          /\ StraddlesOne(900) =>
                /\ Val(fn_result').quarter =
                      Some(power_feed_accumulators.quarter
                           + LastValue * (Boundary(900) - LastTimestamp))
                /\ power_feed_accumulators'.quarter = LastValue * (now' - Boundary(900))
          /\ StraddlesOne(3600) =>
                /\ Val(fn_result').hour =
                      Some(power_feed_accumulators.hour
                           + LastValue * (Boundary(3600) - LastTimestamp))
                /\ power_feed_accumulators'.hour = LastValue * (now' - Boundary(3600))
          /\ StraddlesOne(86400) =>
                /\ Val(fn_result').day =
                      Some(power_feed_accumulators.day
                           + LastValue * (Boundary(86400) - LastTimestamp))
                /\ power_feed_accumulators'.day = LastValue * (now' - Boundary(86400)) ]_vars

\* 1000 W observed at 13:59:30 and held until 14:00:30: 30000 Ws closed the
\* 13:00 hour and 30000 Ws are in the 14:00 hour
C18_Witness ==
    /\ CallsMade = 2 /\ Val(fn_args).fn = "accumulate_power_feed"
    /\ now = 50430
    /\ Val(fn_result).hour = Some(1000 * 30)
    /\ power_feed_accumulators.hour = 1000 * 30
    /\ Val(fn_result).day = None
    /\ power_feed_accumulators.day = 1000 * 60

\* C19: the first observation adds nothing to any window, and every later
\* call adds (value observed at the interval's start) x (interval length) to
\* the manual window, whether or not the interval crosses a quarter, hour or
\* day boundary; so the manual window is the sum of these products over all
\* intervals.
C19_ManualWindow ==
    [][ (/\ ~IsNone(fn_args') /\ Val(fn_args').fn = "accumulate_power_feed"
         /\ Val(fn_args').seq = CallsMade + 1)
        => IF IsNone(power_feed_tracking.last_update_time)
           THEN /\ power_feed_accumulators' = power_feed_accumulators
                /\ power_feed_accumulators' = InitAccumulators
                /\ power_feed_tracking'.last_value = Some(Val(fn_args').value)
                /\ power_feed_tracking'.last_update_time = Some(now')
           ELSE /\ power_feed_accumulators'.manual =
                      power_feed_accumulators.manual + LastValue * (now' - LastTimestamp)
                /\ power_feed_tracking'.last_value = Some(Val(fn_args').value)
                /\ power_feed_tracking'.last_update_time = Some(now') ]_vars

\* 1000 W from 23:59:30, -300 W from 00:00:30, observed again at 00:00:50:
\* the quarter, hour and day windows were reset at midnight, the manual
\* window holds 1000 x 60 - 300 x 20
C19_Witness ==
    /\ CallsMade = 3 /\ Val(fn_args).fn = "accumulate_power_feed"
    /\ now = 86450
    /\ power_feed_accumulators.manual = 1000 * 60 - 300 * 20
    /\ power_feed_accumulators.day = 1000 * 30 - 300 * 20
    /\ power_feed_accumulators.hour = 1000 * 30 - 300 * 20

\* a step of accumulate_p1_reading_hourly that finds the reference seeded
\* (set, with both counters nonzero) and the hour of the last reset known
SeededCall ==
    /\ ~IsNone(fn_args') /\ Val(fn_args').fn = "accumulate_p1_reading_hourly"
    /\ Val(fn_args').seq = CallsMade + 1
    /\ ~IsNone(p1_hourly_reference)
    /\ Val(p1_hourly_reference).import_kwh # 0
    /\ Val(p1_hourly_reference).export_kwh # 0
    /\ ~IsNone(p1_hourly_last_reset_hour)
\* the wall-clock hour and date of the call
CallHour == (now' % 86400) \div 3600
CallDate == now' \div 86400
\* the ledger record that an hour change files
FiledRecord ==
    [date |-> IF CallHour = 0 /\ Val(p1_hourly_last_reset_hour) = 23
              THEN CallDate - 1 ELSE CallDate,
     hour |-> Val(p1_hourly_last_reset_hour),
     import_delta_kwh |-> Val(fn_args').import_kwh - Val(p1_hourly_reference).import_kwh,
     export_delta_kwh |-> Val(fn_args').export_kwh - Val(p1_hourly_reference).export_kwh]

FirstReadingAfterLoad ==
    /\ CallsMade = 0
    /\ ~IsNone(fn_args') /\ Val(fn_args').fn = "accumulate_p1_reading_hourly"
    /\ Val(fn_args').seq = 1
\* the file that was loaded holds reference_import_kwh = 0
LoadedZeroReference ==
    /\ p1_hourly_file.exists /\ p1_hourly_file.valid
    /\ p1_hourly_file.reference_import_kwh = Some(0)

\* C21: after loading a persisted state whose reference_import_kwh is 0, the
\* next live reading becomes the reference (so the delta against it is 0)
\* and the ledger keeps exactly the entries that were loaded: no delta
\* against the zero reference is filed.
C21_RestartReseeds ==
    [][ (FirstReadingAfterLoad /\ LoadedZeroReference) =>
          /\ p1_hourly_reference' = Some([import_kwh |-> Val(fn_args').import_kwh,
                                          export_kwh |-> Val(fn_args').export_kwh])
          /\ p1_hourly_last_reset_hour' = Some(CallHour)
          /\ p1_hourly_data' = p1_hourly_file.data ]_vars

\* the file held the reference (0, 7) taken in hour 13; the reading (6, 7)
\* at 23:59:30 became the reference and nothing was filed for hour 13 (the
\* write of the file failed, so the file is still the one that was loaded)
C21_Witness ==
    /\ CallsMade = 1 /\ Val(fn_args).fn = "accumulate_p1_reading_hourly"
    /\ Val(fn_args).import_kwh = 6 /\ Val(fn_args).export_kwh = 7
    /\ now = 86370
    /\ p1_hourly_file = HourlyFile(Some(0), Some(7), Some(13), {})
    /\ p1_hourly_reference = Some([import_kwh |-> 6, export_kwh |-> 7])
    /\ p1_hourly_last_reset_hour = Some(23)
    /\ p1_hourly_data = {}

(***************************************************************************)
(* Properties of the steps of one iteration (checked under SpecApp)        *)
(***************************************************************************)
\* the step of _check_battery_limits, and the step of _apply_power_settings
LimitsStep == pc = "limits" /\ pc' = "apply"
ApplyStep == pc = "apply" /\ pc' \in {"standby", "fatal"}
\* the setpoint is 'netzero' or 'netzero+'
Symbolic(value) == value.kind \in {"netzero", "netzero+"}
\* value is a fixed setpoint that conflicts with the limit state limit
Conflicts(value, limit) ==
    /\ value.kind = "int"
    /\ \/ value.v > 0 /\ limit = 1
       \/ value.v < 0 /\ limit = 0 - 1

\* C23: the step of _check_battery_limits replaces a fixed setpoint by 0 when
\* it is a charge while limit_state is 1 (maximum) or a discharge while
\* limit_state is -1 (minimum), and hands on every other fixed setpoint
\* unchanged; the limit state is the one that the step has just read.
C23_LoopVeto ==
    [][ (LimitsStep /\ tick_desired_power.kind = "int") =>
          tick_desired_power' = IF Conflicts(tick_desired_power, limit_state')
                                THEN IntValue(0) ELSE tick_desired_power ]_vars

\* the schedule asks for -300 W, the battery is at its minimum, and the
\* setpoint about to be applied is 0
C23_Witness ==
    /\ pc = "apply" /\ ~IsNone(schedule_data)
    /\ Val(schedule_data) # <<>> /\ Resolved(Val(schedule_data)) = IntValue(0 - 300)
    /\ limit_state = 0 - 1
    /\ tick_desired_power = IntValue(0)

\* C25: the step of _apply_power_settings calls set_power, once, exactly
\* when the setpoint handed to it (the one left by the veto) differs from
\* old_value, the value the loop recorded as applied when the iteration
\* began, or is 'netzero' / 'netzero+'; when a fixed setpoint equals
\* old_value the step makes no set_power call and no device write.
C25_ApplyIffChanged ==
    [][ ApplyStep =>
          IF old_value # tick_desired_power \/ Symbolic(tick_desired_power)
          THEN /\ n_calls' = n_calls + 1
               /\ Val(last_call').value = tick_desired_power
               /\ tick_applied' = last_call'
          ELSE /\ n_calls' = n_calls /\ n_posts' = n_posts
               /\ device' = device /\ tick_applied' = None ]_vars

\* second iteration: -300 W was applied in the first, the schedule still
\* asks for -300 W, and the apply step has made no second set_power call
C25_Witness ==
    /\ pc = "standby" /\ n_ticks = 2
    /\ old_value = IntValue(0 - 300) /\ tick_desired_power = IntValue(0 - 300)
    /\ IsNone(tick_applied)
    /\ n_calls = 1 /\ Called /\ LastCall.value = IntValue(0 - 300)

\* the setpoint that the schedule gives in this iteration, before the veto
ScheduledSetpoint ==
    IF IsNone(schedule_data) THEN IntValue(0)
    ELSE IF Val(schedule_data) = <<>> THEN IntValue(0)
    ELSE Resolved(Val(schedule_data))
\* the veto has replaced the setpoint of this iteration
Vetoed == tick_desired_power # ScheduledSetpoint
\* the apply step has called set_power and the call has returned
AppliedOrFailed == n_calls' = n_calls + 1 /\ ~Val(last_call').result.raised

\* C22 as stated: an iteration in which the setpoint was vetoed, or in which
\* set_power was called and returned (the change was applied, or failed to
\* be applied), posts a status event in its apply step.
C22_EveryChangeReported ==
    [][ (ApplyStep /\ pc' = "standby" /\ (Vetoed \/ AppliedOrFailed))
        => n_status' = n_status + 1 ]_vars

\* what the code leaves behind: the schedule asks for -300 W, the write of
\* the first iteration has failed, and the only event posted so far is 'start'
C22_Witness ==
    /\ pc = "standby" /\ n_ticks = 1 /\ ~TEST_MODE
    /\ tick_desired_power = IntValue(0 - 300)
    /\ ~IsNone(tick_applied) /\ ~Val(tick_applied).result.success
    /\ ~IsNone(Val(tick_applied).result.posted)
    /\ n_status = 1 /\ Val(last_status).type = "start"

\* the set_power call made a device write that failed
FailedWrite(call) ==
    /\ ~call.result.success /\ ~call.result.raised
    /\ ~IsNone(call.result.posted)

\* C24: an apply step whose device write fails makes that one write only,
\* leaves self.value and previous_power as they were and goes on to the
\* standby check; and the apply step of the next iteration, when the
\* setpoint handed to it is the one that failed, calls set_power with it
\* again - with a new device write for a fixed setpoint, unless a command
\* has changed previous_power in between.
C24_FailedWriteIsRetried ==
    [][ /\ (ApplyStep /\ ~IsNone(tick_applied') /\ FailedWrite(Val(tick_applied'))) =>
              /\ n_calls' = n_calls + 1 /\ n_posts' = n_posts + 1
              /\ app_value' = app_value /\ previous_power' = previous_power
              /\ pc' = "standby"
        /\ (/\ ApplyStep /\ ~IsNone(tick_applied) /\ FailedWrite(Val(tick_applied))
            /\ Val(tick_applied).value = tick_desired_power) =>
              /\ n_calls' = n_calls + 1
              /\ Val(last_call').value = tick_desired_power
              /\ (/\ tick_desired_power.kind = "int"
                  /\ previous_power = Val(tick_applied).prev) => n_posts' = n_posts + 1
      ]_vars

\* the write of -300 W failed in the first iteration; the second iteration
\* has written -300 W again, this time with success
C24_Witness ==
    /\ pc = "standby" /\ n_ticks = 2 /\ ~TEST_MODE
    /\ old_value = IntValue(0) /\ tick_desired_power = IntValue(0 - 300)
    /\ n_calls = 2 /\ n_posts = 2
    /\ ~IsNone(tick_applied) /\ Val(tick_applied).prev = None
    /\ Val(tick_applied).result.success /\ Val(tick_applied).result.delivered
    /\ app_value = IntValue(0 - 300) /\ previous_power = Some(0 - 300)

\* the grid reading of this iteration shows a surplus of 300 W
Surplus ==
    /\ ~IsNone(tick_p1_data) /\ ~IsNone(Val(tick_p1_data).total_power)
    /\ Val(Val(tick_p1_data).total_power) = 0 - 300

\* C29 as stated: while limit_state is -1 (minimum) the step of
\* _check_battery_limits hands 'netzero' on unchanged, the apply step calls
\* set_power('netzero'), and with a surplus of 300 W on the grid a delivered
\* write is a charge command.
C29_NetzeroChargesAtMinimum ==
    [][ /\ (LimitsStep /\ tick_desired_power = Netzero /\ limit_state' = 0 - 1) =>
              tick_desired_power' = Netzero
        /\ (/\ ApplyStep /\ ScheduledSetpoint = Netzero /\ limit_state = 0 - 1
            /\ Surplus /\ ~TEST_MODE) =>
              /\ n_calls' = n_calls + 1
              /\ Val(last_call').value = Netzero
              /\ Val(last_call').result.delivered =>
                    (device'.acMode = 1 /\ device'.inputLimit > 0)
      ]_vars

\* what the code leaves behind: the schedule says 'netzero', the battery is
\* at its minimum, the grid shows a surplus of 300 W, and the iteration has
\* applied the setpoint 0 by making no set_power call at all
C29_Witness ==
    /\ pc = "standby" /\ ~TEST_MODE
    /\ ScheduledSetpoint = Netzero /\ limit_state = 0 - 1 /\ Surplus
    /\ tick_desired_power = IntValue(0) /\ app_value = IntValue(0)
    /\ IsNone(tick_applied) /\ n_calls = 0
    /\ device.inputLimit = 0

\* the step of _accumulate_p1_data has changed the ledger, which it does
\* only where it then saves it, and the file is not the saved ledger
SaveFailedStep ==
    /\ pc = "accumulate"
    /\ <<p1_hourly_reference, p1_hourly_last_reset_hour, p1_hourly_data>>'
          # <<p1_hourly_reference, p1_hourly_last_reset_hour, p1_hourly_data>>
    /\ p1_hourly_file' # SaveP1HourlyData(p1_hourly_file, Ledger', "written")

\* C27: a failed write of the hourly file does not end the loop: the step
\* in which it happens hands the reading on to the rest of the iteration
\* and goes on to the input check, with no shutdown requested and no exit
\* recorded; the handler of fatal errors is entered from the apply step only.
C27_SaveFailureNotFatal ==
    [][ /\ SaveFailedStep =>
              /\ pc' = "input"
              /\ ForLedger(tick_p1_data')
              /\ UNCHANGED <<shutdown_requested, exit_path, n_ticks>>
        /\ (pc' = "fatal" /\ pc # "fatal") => pc = "apply" ]_vars

\* the write of the file failed in the first iteration (there still is no
\* file), the ledger holds the reference taken then, and the second
\* iteration has applied its setpoint
C27_Witness ==
    /\ pc = "standby" /\ n_ticks = 2 /\ ~TEST_MODE
    /\ p1_hourly_file = NoFile
    /\ p1_hourly_reference = Some([import_kwh |-> 5, export_kwh |-> 7])
    /\ ForLedger(tick_p1_data)
    /\ ~IsNone(tick_applied) /\ Val(tick_applied).result.delivered
    /\ Val(tick_applied).at = now

(***************************************************************************)
(* The two clamps (checked under SpecFn)                                   *)
(***************************************************************************)
\* C28 as stated: every power that calculate_netzero_power returns lies
\* within -MAX_DISCHARGE_POWER .. MAX_CHARGE_POWER, so that _send_power_feed,
\* with no battery limit in force, sends it and reports it unchanged.
C28_ClampsAgree ==
    NetzeroReturned =>
       /\ Val(FnValue) <= MAX_CHARGE_POWER
       /\ Val(FnValue) >= 0 - MAX_DISCHARGE_POWER
       /\ SendPowerFeed(Val(FnValue), None, 0, FALSE, TRUE).sent = FnValue
       /\ SendPowerFeed(Val(FnValue), None, 0, FALSE, TRUE).power = Val(FnValue)

\* what the code leaves behind: with 1300 W drawn from the grid and the
\* inverter idle, 'netzero' computes a discharge of 1200 W, of which
\* _send_power_feed sends 800 W
C28_Witness ==
    /\ NetzeroReturned /\ FnCall.mode = "netzero"
    /\ ~IsNone(FnCall.p1_data) /\ Val(FnCall.p1_data).total_power = Some(1300)
    /\ FnCall.zendure = ZendureReading(Some(0), Some(0), Some(50))
    /\ Val(FnValue) = 0 - 1200
    /\ SendPowerFeed(Val(FnValue), None, 0, FALSE, TRUE).sent = Some(0 - 800)

(***************************************************************************)
(* set_standby_mode called on its own (checked under SpecCtl)              *)
(***************************************************************************)
\* C30 as stated: a call of set_standby_mode made with previous_power = 0
\* and device writes enabled, whose two set_power calls both return
\* success, makes two device writes, the second of which is
\* {acMode 0, inputLimit 0, outputLimit 0} - whatever limit_state is.
C30_StandbyParksAtEveryLimit ==
    [][ (/\ n_calls' = n_calls + 2
         /\ previous_power = Some(0)
         /\ ~TEST_MODE
         /\ Val(last_call').result.success)
        => (/\ n_posts' = n_posts + 2
            /\ Val(last_call').value = IntValue(0)
            /\ Val(last_call').result.posted = Some(IdleCommand)) ]_vars

\* what the code leaves behind at the maximum level: set_power(0) had been
\* written, then set_standby_mode ran both its calls, each found the power
\* unchanged, and no further write was made
C30_Witness ==
    /\ ~TEST_MODE /\ limit_state = 1
    /\ n_calls = 3 /\ n_posts = 1
    /\ Called /\ LastCall.value = IntValue(0) /\ LastCall.prev = Some(0)
    /\ LastCall.at = 50370 + 2 * LOOP_INTERVAL_SECONDS + 2
    /\ LastResult.success /\ IsNone(LastResult.posted)
    /\ previous_power = Some(0)

(***************************************************************************)
(* The input thread and the control loop (checked under SpecWin)           *)
(***************************************************************************)
\* the variables that only the control-loop thread may change
loop_vars == <<installed_vars, now, app_vars, sched_vars, tick_vars, ledger_vars,
               status_vars, run_vars>>

\* a step of the input thread: the thread ends, or the queue grows
ListenerStep ==
    \/ input_handler.input_thread = "alive" /\ input_handler'.input_thread = "dead"
    \/ Len(input_handler'.input_queue) > Len(input_handler.input_queue)

\* a step in which set_power is called, a device write is made, or the cached
\* schedule is replaced
WritingStep ==
    \/ n_calls' # n_calls
    \/ n_posts' # n_posts
    \/ schedule_data' # schedule_data

\* C26: interactive commands are never applied from the listener.  A step of
\* the input thread changes nothing but the input handler, and when it
\* queues something, it appends one stripped line to the queue.  Every step
\* that calls set_power, writes to the device or replaces the schedule is a
\* statement of run() that moves the control loop on; at the two places
\* where the loop checks for input, a set_power call is caused by the line at
\* the head of the queue, which that step removes, and is made with that
\* command's value - so no write caused by a command falls inside the apply
\* or stand-by statement of an iteration.
C26_CommandsAppliedInLoop ==
    [][ /\ ListenerStep =>
              /\ UNCHANGED loop_vars
              /\ \/ input_handler'.input_queue = input_handler.input_queue
                 \/ \E line \in StdinLines :
                       input_handler'.input_queue =
                           Append(input_handler.input_queue, Strip(line))
        /\ WritingStep =>
              /\ ~ListenerStep
              /\ pc' # pc
              /\ pc \in {"input", "refresh", "desired", "limits", "apply", "standby",
                         "sleep", "shutdown"}
        /\ (pc \in {"input", "sleep"} /\ n_calls' # n_calls) =>
              /\ input_handler.input_queue # <<>>
              /\ input_handler'.input_queue = Tail(input_handler.input_queue)
              /\ n_calls' = n_calls + 1
              /\ Val(last_call').value =
                    CommandValue(CommandOfInput(Some(Head(input_handler.input_queue))))
      ]_vars

\* the input thread has queued 'z' and another line; the control loop has
\* taken the 'z' from the queue, called set_power(0) for it and posted the
\* command's 'change' event, and the other line is still waiting
C26_Witness ==
    /\ input_handler.windows /\ input_handler.input_thread = "alive"
    /\ input_handler.input_queue # <<>>
    /\ pc \in {"refresh", "loop"}
    /\ Called /\ LastCall.value = IntValue(0) /\ LastResult.success
    /\ ~IsNone(last_status)
    /\ Val(last_status).type = "change"
    /\ Val(last_status).oldValue = NoneValue
    /\ Val(last_status).newValue = IntValue(0)
    /\ Val(last_status).after_call = n_calls

(***************************************************************************)
(* The loop's last-applied value and the controller (checked under SpecApp)*)
(***************************************************************************)
\* an iteration of run() has ended: _sleep_interrupted has returned
TickEnded == pc = "loop" /\ n_ticks >= 1

\* C31 as stated: with device writes enabled, at the end of every iteration
\* of run() the loop's self.value is the controller's previous_power whenever
\* previous_power is set.
C31_ValueIsPreviousPower ==
    (TickEnded /\ ~TEST_MODE /\ ~IsNone(previous_power))
        => app_value = IntValue(Val(previous_power))

\* the schedule asks for 300 W of discharge and the loop applied it; during
\* the sleep the 'z' command set the device to 0.  The loop still holds -300
\* as its last applied value, so the next iteration finds nothing to apply
C31_Witness ==
    /\ TickEnded /\ ~TEST_MODE
    /\ app_value = IntValue(0 - 300)
    /\ previous_power = Some(0)
    /\ Called /\ LastCall.value = IntValue(0) /\ LastResult.success
    /\ ~IsNone(last_status) /\ Val(last_status).type = "change"
    /\ Val(last_status).oldValue = NoneValue

(***************************************************************************)
(* The hourly reference once seeded (checked under SpecLedger)             *)
(***************************************************************************)
\* accumulate_p1_reading_hourly is called on a PowerAccumulator that has
\* handled a live reading before and holds a reference
CallAfterSeeding ==
    /\ CallsMade >= 1
    /\ ~IsNone(fn_args') /\ Val(fn_args').fn = "accumulate_p1_reading_hourly"
    /\ Val(fn_args').seq = CallsMade + 1
    /\ ~IsNone(p1_hourly_reference)
    /\ ~IsNone(p1_hourly_last_reset_hour)

\* C32 as stated: once the reference has been seeded from a live reading, a
\* later call in the same hour leaves the reference alone, and a later call
\* in another hour files the delta against the reference under the old hour
\* and takes the reading as the new reference - whatever the counters read.
C32_SeededOnce ==
    [][ CallAfterSeeding =>
          IF CallHour # Val(p1_hourly_last_reset_hour)
          THEN /\ FiledRecord \in p1_hourly_data'
               /\ p1_hourly_reference' = Some([import_kwh |-> Val(fn_args').import_kwh,
                                               export_kwh |-> Val(fn_args').export_kwh])
          ELSE UNCHANGED <<p1_hourly_reference, p1_hourly_data>> ]_vars

\* a meter without feed-in: the reading (6, 0) of 13:59:30 became the
\* reference; the reading (6, 0) of 15:01:10 was taken as a first reading
\* again, and the ledger has no entry for hour 13
C32_Witness ==
    /\ CallsMade = 2 /\ Val(fn_args).fn = "accumulate_p1_reading_hourly"
    /\ now = 50370 + 3700
    /\ Val(fn_args).import_kwh = 6 /\ Val(fn_args).export_kwh = 0
    /\ p1_hourly_reference = Some([import_kwh |-> 6, export_kwh |-> 0])
    /\ p1_hourly_last_reset_hour = Some(15)
    /\ p1_hourly_data = {}

(***************************************************************************)
(* A failed device write (checked under SpecCtl)                           *)
(***************************************************************************)
\* one call of set_power is made in this step
OneCall == n_calls' = n_calls + 1

\* C33: a set_power call whose device write fails leaves previous_power, the
\* power-feed accumulators and their tracking state, and the inverter as
\* they were; and when the call after a failed write asks for the same fixed
\* value under the same limit_state, that value is posted to the device
\* again instead of being skipped as unchanged.
C33_FailedWriteLeavesNoTrace ==
    [][ /\ (OneCall /\ FailedWrite(Val(last_call'))) =>
              /\ previous_power' = previous_power
              /\ power_feed_accumulators' = power_feed_accumulators
              /\ power_feed_tracking' = power_feed_tracking
              /\ device' = device
        /\ (/\ OneCall /\ Called /\ FailedWrite(LastCall)
            /\ LastCall.value.kind = "int"
            /\ Val(last_call').value = LastCall.value
            /\ limit_state = LastCall.limit) =>
              /\ n_posts' = n_posts + 1
              /\ Val(last_call').result.posted = LastResult.posted
              /\ Val(last_call').result.sent = LastResult.sent ]_vars

\* set_power(0) was written; the write of -300 after it failed, and the
\* controller still holds 0 as previous_power
C33_Witness ==
    /\ Called /\ FailedWrite(LastCall)
    /\ LastCall.value = IntValue(0 - 300)
    /\ LastCall.prev = Some(0) /\ previous_power = Some(0)
    /\ n_calls = 2 /\ n_posts = 2
    /\ device.outputLimit = 0 /\ device.inputLimit = 0

(***************************************************************************)
(* Range closure and fixed point of the balancer (checked under SpecCalc)  *)
(***************************************************************************)
InRange(feed) == POWER_FEED_MIN <= feed /\ feed <= POWER_FEED_MAX

\* C34: if the current effective feed (currentOutput - currentInput) lies in
\* [POWER_FEED_MIN, POWER_FEED_MAX], the effective feed that
\* _calculate_new_settings returns lies in that range as well, for every
\* grid power and every battery level (known or not).  A sequence of calls
\* that feeds each result back as the current limits therefore never leaves
\* the range.
C34_RangeClosure ==
    (Returned /\ InRange(ArgCurrent)) => InRange(NewFeed)

\* C34 witness: the current feed is in range, the grid power asks for a
\* charge of more than 800 W, and the call returns the limit, a charge of
\* 800 W
C34_Witness ==
    /\ Returned /\ InRange(ArgCurrent)
    /\ ArgDesired < POWER_FEED_MIN
    /\ NewFeed = POWER_FEED_MIN /\ NewInput = 800 /\ NewOutput = 0

\* C35: with a balanced grid (gridPower = 0), at most one of the current
\* limits nonzero, the current effective feed in
\* [POWER_FEED_MIN, POWER_FEED_MAX] and minChargeLevel < soc < maxChargeLevel,
\* _calculate_new_settings returns the current limits (a missing limit
\* counts as 0) - also when the current feed is below the deadband.
C35_BalancedFixedPoint ==
    (/\ Returned /\ ArgP1 = 0 /\ ArgIn * ArgOut = 0 /\ InRange(ArgCurrent)
     /\ ArgLevelKnown /\ MIN_CHARGE_LEVEL < ArgLevel /\ ArgLevel < MAX_CHARGE_LEVEL)
        => (NewInput = ArgIn /\ NewOutput = ArgOut)

\* C35 witness: a discharge of 29 W, below the deadband of 30 W, is kept
C35_Witness ==
    /\ Returned /\ ArgP1 = 0 /\ ArgIn = 0 /\ ArgOut = POWER_FEED_MIN_THRESHOLD - 1
    /\ ArgLevelKnown /\ ArgLevel = 50
    /\ NewInput = 0 /\ NewOutput = POWER_FEED_MIN_THRESHOLD - 1

(***************************************************************************)
(* The stand-by trigger (checked under SpecIdle)                           *)
(***************************************************************************)
\* _handle_standby_check runs in this step
StandbyCheckStep == pc = "standby" /\ pc' = "sleep"

\* C36: the stand-by sequence runs at most once in a run of consecutive
\* iterations with applied power 0.  zero_count changes in
\* _handle_standby_check only, and goes down only to 0, in an iteration whose
\* applied power is not 0; the controller is called from
\* _handle_standby_check exactly in the iteration where the count goes from
\* below ZERO_COUNT_THRESHOLD to it.  Two runs of the sequence are therefore
\* separated by an iteration with nonzero power.
C36_StandbyOncePerRun ==
    [][ /\ zero_count' # zero_count => StandbyCheckStep
        /\ StandbyCheckStep =>
              /\ \/ zero_count' = zero_count + 1 /\ app_value = IntValue(0)
                 \/ zero_count' = 0 /\ app_value # IntValue(0)
              /\ (n_calls' # n_calls) <=>
                    (zero_count < ZERO_COUNT_THRESHOLD
                     /\ zero_count' = ZERO_COUNT_THRESHOLD) ]_vars

\* the 22nd iteration in a row with power 0 has passed its stand-by check:
\* the only calls of the controller are the two of the stand-by sequence
\* made in the 21st iteration
C36_Witness ==
    /\ pc = "sleep" /\ n_ticks = ZERO_COUNT_THRESHOLD + 1
    /\ zero_count = ZERO_COUNT_THRESHOLD + 1
    /\ app_value = IntValue(0)
    /\ n_calls = 2 /\ Called /\ LastCall.value = IntValue(0)

(***************************************************************************)
(* Writes that carry acMode 0 (checked under SpecCtl)                      *)
(***************************************************************************)
\* set_power has been called in this step; the record of the (last) call
NewCall == n_calls' # n_calls
TheCall == Val(last_call')

\* C37: a device write carries acMode = 0 only when previous_power is 1,
\* that is, when the last successful write was for power 1; a stop (v = 0)
\* after a charge or a discharge writes inputLimit = 0 and outputLimit = 0
\* without an acMode field, and the inverter's acMode stays as it was.
C37_IdleOnlyAfterOne ==
    [][ NewCall =>
          /\ (~IsNone(TheCall.result.posted)
              /\ Val(TheCall.result.posted).acMode = Some(0))
                => TheCall.prev = Some(1)
          /\ (/\ TheCall.value = IntValue(0)
              /\ ~IsNone(TheCall.prev) /\ Abs(Val(TheCall.prev)) > 1
              /\ ~TEST_MODE)
                => /\ TheCall.result.posted =
                          Some([acMode |-> None, inputLimit |-> 0, outputLimit |-> 0,
                                smartMode |-> 1])
                   /\ n_calls' = n_calls + 1 => device'.acMode = device.acMode
                   /\ TheCall.result.success =>
                          (device'.inputLimit = 0 /\ device'.outputLimit = 0) ]_vars

\* a discharge of 300 W was stopped: the write had no acMode and the
\* inverter is still in acMode 2 with both limits at 0
C37_Witness ==
    /\ Called /\ LastCall.value = IntValue(0) /\ LastCall.prev = Some(0 - 300)
    /\ LastResult.success
    /\ LastResult.posted = Some([acMode |-> None, inputLimit |-> 0, outputLimit |-> 0,
                                 smartMode |-> 1])
    /\ device.acMode = 2 /\ device.inputLimit = 0 /\ device.outputLimit = 0
    /\ previous_power = Some(0)

(***************************************************************************)
(* run_schedule/automate.py: a fatal error (checked under SpecOld)         *)
(***************************************************************************)
\* C38 as stated: when main() has ended through a fatal error of an
\* iteration, the last set_power call was set_power(0), made after the
\* error and successful, and the 'stop' event has been posted after it.
C38_FatalSetsZeroThenStops ==
    (pc = "exited" /\ exit_path = Some("fatal")) =>
        /\ Called /\ LastCall.value = IntValue(0) /\ ~LastResult.raised
        /\ LastCall.during = "fatal"
        /\ ~IsNone(last_status) /\ Val(last_status).type = "stop"
        /\ Val(last_status).after_call = n_calls

\* set_power(300) raised in the first iteration: main() posted 'stop' and
\* ended, and the failed set_power(300) is the only call it ever made
C38_Witness ==
    /\ pc = "exited" /\ exit_path = Some("fatal")
    /\ n_calls = 1 /\ LastCall.value = IntValue(300) /\ LastResult.raised
    /\ LastCall.during = "apply"
    /\ ~IsNone(last_status) /\ Val(last_status).type = "stop"
    /\ Val(last_status).oldValue = IntValue(300)

(***************************************************************************)
(* run_schedule/automate2.py: a failed write and the next tick             *)
(***************************************************************************)
\* the latest set_power call was made by step 5 of the previous tick with a
\* fixed setpoint, it failed, and step 5 of this tick is about to run with
\* the schedule resolving to that same setpoint, which the validation kept
FailedLastTick ==
    /\ pc = "apply"
    /\ ~IsNone(last_call)
    /\ Val(last_call).during = "apply"
    /\ Val(last_call).tick = n_ticks - 1
    /\ Val(last_call).value.kind = "int"
    /\ ~Val(last_call).result.success
    /\ RsGetDesiredPower(schedule_data, None).val = Val(last_call).value
    /\ tick_desired_power = Val(last_call).value

\* C39: in main() of run_schedule/automate2.py a failed device write is
\* retried on the next tick: while the schedule keeps resolving to the same
\* fixed setpoint, step 5 of the tick after a failed set_power calls
\* set_power again with that setpoint.
C39_FailedWriteRetriedNextTick ==
    [][ (FailedLastTick /\ pc' \in {"sleep", "fatal"})
        => /\ n_calls' = n_calls + 1
           /\ Val(last_call').value = tick_desired_power ]_vars

\* the tick after a failed set_power(300) has passed step 5 with the
\* schedule still at 300, and the failed call is still the only one made
C39_Witness ==
    /\ pc = "sleep"
    /\ n_ticks = 2
    /\ n_calls = 1
    /\ ~IsNone(last_call)
    /\ Val(last_call).value = IntValue(300)
    /\ Val(last_call).tick = 1
    /\ ~Val(last_call).result.success
    /\ ~IsNone(Val(last_call).result.posted)
    /\ tick_desired_power = IntValue(300)
    /\ old_value = IntValue(300)
    /\ app_value = IntValue(300)
    /\ IsNone(previous_power)

(***************************************************************************)
(* run_schedule/automate2.py: the validation against the battery limits    *)
(***************************************************************************)
\* a fixed setpoint v, positive = charge, conflicts with limit_state limit
ChargeConflicts(v, limit) ==
    \/ v > 0 /\ limit = 1
    \/ v < 0 /\ limit = 0 - 1

\* steps 2 to 4 of a tick whose schedule value is a fixed setpoint
ValidationStep ==
    /\ pc = "limits"
    /\ pc' = "apply"
    /\ tick_desired_power.kind = "int"

\* step 5 of a tick, with a set_power call
CallingStep ==
    /\ pc = "apply"
    /\ n_calls' = n_calls + 1

\* C40: in main() of run_schedule/automate2.py, with setpoints in the
\* positive = charge convention, a fixed charge (v > 0) while limit_state
\* is 1 (AtMaximum) or a fixed discharge (v < 0) while limit_state is -1
\* (AtMinimum) is replaced by 0 before it is applied, and a fixed setpoint
\* that does not conflict with limit_state is passed to set_power unchanged.
C40_VetoOfConflictingSetpoint ==
    [][ /\ ValidationStep
           => tick_desired_power' =
                 IF ChargeConflicts(tick_desired_power.v, limit_state')
                 THEN IntValue(0) ELSE tick_desired_power
        /\ CallingStep => Val(last_call').value = tick_desired_power ]_vars

\* set_power(300), a charge, was called by step 5 while limit_state was 1
C40_Witness ==
    /\ pc = "sleep"
    /\ ~IsNone(last_call)
    /\ Val(last_call).during = "apply"
    /\ Val(last_call).value = IntValue(300)
    /\ Val(last_call).limit = 1
    /\ limit_state = 1
    /\ app_value = IntValue(300)

==============================================================================
